---- MODULE Spec2Model ----
(***************************************************************************)
(* Command interpretation and session-state engine of agentsouschef.       *)
(*                                                                         *)
(* Python strings that the code inspects (user input, ingredient texts,    *)
(* trigger phrases) are modelled character by character: Chars(s) is the   *)
(* sequence of the characters of the text named s, each character a        *)
(* one-character string (a non-ASCII character is the token "uXXXX" of its *)
(* code point).  lower(), strip(), startswith, `in` and the regular        *)
(* expressions are computed on those sequences.                            *)
(*                                                                         *)
(* A reply is a rope: the sequence of the pieces the code concatenates     *)
(* (literals, step texts, ingredient texts, decimal digits, the characters *)
(* of an echoed target).  The Python string is the concatenation of the    *)
(* pieces.  In a literal piece a non-ASCII character or a backquote is     *)
(* written as its code point, uXXXX.                                       *)
(***************************************************************************)
EXTENDS Integers, Sequences, FiniteSets, TLC

VARIABLES
    SESSIONS,   \* api_server.SESSIONS: session id -> Session
    last,       \* the last API request and its response
    eng,        \* the Cooking State a direct caller of an engine holds
    out,        \* the last direct engine call: its arguments and result
    scen,       \* an observer: progress of the session through the k / x 5 /
                \* what scenario (Spec), the run of "k" commands (SpecSession)
    pick,       \* Streamlit session_state: pending_recipe_pick, pick_candidates
    calls       \* the engine calls a direct caller has made so far, in order

vars == <<SESSIONS, last, eng, out, scen, pick, calls>>

-----------------------------------------------------------------------------
(* Bounds *)

\* A session takes part in at most MaxTurns message turns.
MaxTurns == 3

\* A caller that keeps calling an engine makes at most MaxCalls calls.
MaxCalls == 4

\* A run of "k" commands is followed for at most MaxRun commands.
MaxRun == 9

-----------------------------------------------------------------------------
(* Python str operations *)

UpperAZ == <<"A","B","C","D","E","F","G","H","I","J","K","L","M",
             "N","O","P","Q","R","S","T","U","V","W","X","Y","Z">>
LowerAZ == <<"a","b","c","d","e","f","g","h","i","j","k","l","m",
             "n","o","p","q","r","s","t","u","v","w","x","y","z">>
DigitChars == <<"0","1","2","3","4","5","6","7","8","9">>

\* str.isspace / regex \s, on the characters the inputs use
IsSpace(c) == c \in {" ", "\t", "\n", "\r"}

\* regex \d, on the ASCII digits
IsDigit(c) == \E d \in 1..10 : DigitChars[d] = c

DigitVal(c) == (CHOOSE d \in 1..10 : DigitChars[d] = c) - 1

LowerChar(c) ==
    IF \E i \in 1..26 : UpperAZ[i] = c
    THEN LowerAZ[CHOOSE i \in 1..26 : UpperAZ[i] = c]
    ELSE c

\* str.lower()
Lower(s) == [i \in 1..Len(s) |-> LowerChar(s[i])]

\* str.strip()
Strip(s) ==
    IF \A i \in 1..Len(s) : IsSpace(s[i])
    THEN << >>
    ELSE LET f == CHOOSE i \in 1..Len(s) :
                     ~IsSpace(s[i]) /\ \A j \in 1..(i-1) : IsSpace(s[j])
             l == CHOOSE i \in 1..Len(s) :
                     ~IsSpace(s[i]) /\ \A j \in (i+1)..Len(s) : IsSpace(s[j])
         IN  SubSeq(s, f, l)

\* str.startswith(p)
StartsWith(s, p) == Len(p) <= Len(s) /\ SubSeq(s, 1, Len(p)) = p

\* t in s (substring test; the empty string is in every string)
Contains(s, t) ==
    \E i \in 0..(Len(s) - Len(t)) : \A j \in 1..Len(t) : s[i + j] = t[j]

\* s[n:]
DropPrefix(s, n) == SubSeq(s, n + 1, Len(s))

\* int(digits)
RECURSIVE ToInt(_)
ToInt(ds) ==
    IF Len(ds) = 0 THEN 0
    ELSE 10 * ToInt(SubSeq(ds, 1, Len(ds) - 1)) + DigitVal(ds[Len(ds)])

\* str(n) for n >= 0, as digit pieces
RECURSIVE NumStr(_)
NumStr(n) ==
    IF n < 10 THEN <<DigitChars[n + 1]>>
    ELSE NumStr(n \div 10) \o <<DigitChars[(n % 10) + 1]>>

\* "\n".join(lines), lines a sequence of ropes
RECURSIVE JoinLines(_)
JoinLines(lines) ==
    IF Len(lines) = 0 THEN << >>
    ELSE IF Len(lines) = 1 THEN lines[1]
    ELSE lines[1] \o <<"\n">> \o JoinLines(Tail(lines))

\* the lines of a rope built by JoinLines, flattened: lines[1] + lines[2] + ...
RECURSIVE Flatten(_)
Flatten(lines) ==
    IF Len(lines) = 0 THEN << >> ELSE lines[1] \o Flatten(Tail(lines))

\* the end of the leading whitespace run that starts at position p (p - 1 if none)
RECURSIVE SpaceRunEnd(_, _)
SpaceRunEnd(s, p) ==
    IF p <= Len(s) /\ IsSpace(s[p]) THEN SpaceRunEnd(s, p + 1) ELSE p - 1

\* the end of the digit run that starts at position p (p - 1 if none)
DigitRunEnd(s, p) ==
    IF p > Len(s) THEN p - 1
    ELSE IF \A i \in p..Len(s) : IsDigit(s[i]) THEN Len(s)
    ELSE (CHOOSE i \in p..Len(s) :
              ~IsDigit(s[i]) /\ \A j \in p..(i - 1) : IsDigit(s[j])) - 1

\* int(digits) raises ValueError when digits is longer than the limit of
\* sys.get_int_max_str_digits(), 4300 unless the deployment changes it
int_max_str_digits == 4300
IntRaises(ds) == Len(ds) > int_max_str_digits

AllSpace(s, from) == \A i \in from..Len(s) : IsSpace(s[i])

(*CHARS-BEGIN*)
\* The characters of each text the engines inspect.
Chars(s) ==
    CASE s = "8 ounces dry spaghetti or other pasta" ->
           <<"8"," ","o","u","n","c","e","s"," ","d","r","y"," ","s","p","a","g","h","e","t","t","i"," ","o","r"," ","o","t","h","e","r"," ","p","a","s","t","a">>
      [] s = "Salt for the pasta water" ->
           <<"S","a","l","t"," ","f","o","r"," ","t","h","e"," ","p","a","s","t","a"," ","w","a","t","e","r">>
      [] s = "3 tablespoons olive oil" ->
           <<"3"," ","t","a","b","l","e","s","p","o","o","n","s"," ","o","l","i","v","e"," ","o","i","l">>
      [] s = "3-4 cloves garlic, minced" ->
           <<"3","u2013","4"," ","c","l","o","v","e","s"," ","g","a","r","l","i","c",","," ","m","i","n","c","e","d">>
      [] s = "Freshly ground black pepper" ->
           <<"F","r","e","s","h","l","y"," ","g","r","o","u","n","d"," ","b","l","a","c","k"," ","p","e","p","p","e","r">>
      [] s = "1/2 cup reserved pasta cooking water (as needed)" ->
           <<"1","/","2"," ","c","u","p"," ","r","e","s","e","r","v","e","d"," ","p","a","s","t","a"," ","c","o","o","k","i","n","g"," ","w","a","t","e","r"," ","(","a","s"," ","n","e","e","d","e","d",")">>
      [] s = "Grated Parmesan or Pecorino cheese for serving" ->
           <<"G","r","a","t","e","d"," ","P","a","r","m","e","s","a","n"," ","o","r"," ","P","e","c","o","r","i","n","o"," ","c","h","e","e","s","e"," ","f","o","r"," ","s","e","r","v","i","n","g">>
      [] s = "3 large eggs" ->
           <<"3"," ","l","a","r","g","e"," ","e","g","g","s">>
      [] s = "Salt" ->
           <<"S","a","l","t">>
      [] s = "1-2 teaspoons butter" ->
           <<"1","u2013","2"," ","t","e","a","s","p","o","o","n","s"," ","b","u","t","t","e","r">>
      [] s = "Optional: 1-2 tablespoons milk or cream" ->
           <<"O","p","t","i","o","n","a","l",":"," ","1","u2013","2"," ","t","a","b","l","e","s","p","o","o","n","s"," ","m","i","l","k"," ","o","r"," ","c","r","e","a","m">>
      [] s = "i" ->
           <<"i">>
      [] s = "ingredients" ->
           <<"i","n","g","r","e","d","i","e","n","t","s">>
      [] s = "s" ->
           <<"s">>
      [] s = "steps" ->
           <<"s","t","e","p","s">>
      [] s = "k" ->
           <<"k">>
      [] s = "ok" ->
           <<"o","k">>
      [] s = "next" ->
           <<"n","e","x","t">>
      [] s = "done" ->
           <<"d","o","n","e">>
      [] s = "what" ->
           <<"w","h","a","t">>
      [] s = "start over" ->
           <<"s","t","a","r","t"," ","o","v","e","r">>
      [] s = "restart" ->
           <<"r","e","s","t","a","r","t">>
      [] s = "start again" ->
           <<"s","t","a","r","t"," ","a","g","a","i","n">>
      [] s = "reset recipe" ->
           <<"r","e","s","e","t"," ","r","e","c","i","p","e">>
      [] s = "start this recipe over" ->
           <<"s","t","a","r","t"," ","t","h","i","s"," ","r","e","c","i","p","e"," ","o","v","e","r">>
      [] s = "clear" ->
           <<"c","l","e","a","r">>
      [] s = "okay" ->
           <<"o","k","a","y">>
      [] s = "next step" ->
           <<"n","e","x","t"," ","s","t","e","p">>
      [] s = "finished" ->
           <<"f","i","n","i","s","h","e","d">>
      [] s = "strikethrough " ->
           <<"s","t","r","i","k","e","t","h","r","o","u","g","h"," ">>
      [] s = "strike " ->
           <<"s","t","r","i","k","e"," ">>
      [] s = "cross off " ->
           <<"c","r","o","s","s"," ","o","f","f"," ">>
      [] s = "x " ->
           <<"x"," ">>
      [] s = "cross " ->
           <<"c","r","o","s","s"," ">>
      [] s = "86 " ->
           <<"8","6"," ">>
      [] s = "unstrike " ->
           <<"u","n","s","t","r","i","k","e"," ">>
      [] s = "uncross " ->
           <<"u","n","c","r","o","s","s"," ">>
      [] s = "restore " ->
           <<"r","e","s","t","o","r","e"," ">>
      [] s = "ingredient list" ->
           <<"i","n","g","r","e","d","i","e","n","t"," ","l","i","s","t">>
      [] s = "what are the ingredients" ->
           <<"w","h","a","t"," ","a","r","e"," ","t","h","e"," ","i","n","g","r","e","d","i","e","n","t","s">>
      [] s = "show ingredients" ->
           <<"s","h","o","w"," ","i","n","g","r","e","d","i","e","n","t","s">>
      [] s = "list the ingredients" ->
           <<"l","i","s","t"," ","t","h","e"," ","i","n","g","r","e","d","i","e","n","t","s">>
      [] s = "what do i need" ->
           <<"w","h","a","t"," ","d","o"," ","i"," ","n","e","e","d">>
      [] s = "show all steps" ->
           <<"s","h","o","w"," ","a","l","l"," ","s","t","e","p","s">>
      [] s = "list steps" ->
           <<"l","i","s","t"," ","s","t","e","p","s">>
      [] s = "show steps" ->
           <<"s","h","o","w"," ","s","t","e","p","s">>
      [] s = "what are the steps" ->
           <<"w","h","a","t"," ","a","r","e"," ","t","h","e"," ","s","t","e","p","s">>
      [] s = "cancel" ->
           <<"c","a","n","c","e","l">>
      [] s = "exit" ->
           <<"e","x","i","t">>
      [] s = "stop picking" ->
           <<"s","t","o","p"," ","p","i","c","k","i","n","g">>
      [] s = "pick" ->
           <<"p","i","c","k">>
      [] s = "almond milk" ->
           <<"a","l","m","o","n","d"," ","m","i","l","k">>
      [] s = "Olive Oil" ->
           <<"O","l","i","v","e"," ","O","i","l">>
      [] s = "K" ->
           <<"K">>
      [] s = "OK" ->
           <<"O","K">>
      [] s = "Okay" ->
           <<"O","k","a","y">>
      [] s = "Next Step" ->
           <<"N","e","x","t"," ","S","t","e","p">>
      [] s = "FINISHED" ->
           <<"F","I","N","I","S","H","E","D">>
      [] s = " next " ->
           <<" ","n","e","x","t"," ">>
      [] s = "x 0" ->
           <<"x"," ","0">>
      [] s = "x 3" ->
           <<"x"," ","3">>
      [] s = "x 5" ->
           <<"x"," ","5">>
      [] s = "x 999" ->
           <<"x"," ","9","9","9">>
      [] s = "X 7" ->
           <<"X"," ","7">>
      [] s = "x  2" ->
           <<"x"," "," ","2">>
      [] s = "x 3 eggs" ->
           <<"x"," ","3"," ","e","g","g","s">>
      [] s = "x eggs" ->
           <<"x"," ","e","g","g","s">>
      [] s = "86 EGGS" ->
           <<"8","6"," ","E","G","G","S">>
      [] s = "strike eggs" ->
           <<"s","t","r","i","k","e"," ","e","g","g","s">>
      [] s = "strikethrough eggs" ->
           <<"s","t","r","i","k","e","t","h","r","o","u","g","h"," ","e","g","g","s">>
      [] s = "cross off eggs" ->
           <<"c","r","o","s","s"," ","o","f","f"," ","e","g","g","s">>
      [] s = "cross eggs" ->
           <<"c","r","o","s","s"," ","e","g","g","s">>
      [] s = "x salt" ->
           <<"x"," ","s","a","l","t">>
      [] s = "x pasta" ->
           <<"x"," ","p","a","s","t","a">>
      [] s = "x oil" ->
           <<"x"," ","o","i","l">>
      [] s = "x zzz" ->
           <<"x"," ","z","z","z">>
      [] s = "x almond" ->
           <<"x"," ","a","l","m","o","n","d">>
      [] s = "unstrike eggs" ->
           <<"u","n","s","t","r","i","k","e"," ","e","g","g","s">>
      [] s = "restore pasta" ->
           <<"r","e","s","t","o","r","e"," ","p","a","s","t","a">>
      [] s = "uncross salt" ->
           <<"u","n","c","r","o","s","s"," ","s","a","l","t">>
      [] s = "CLEAR" ->
           <<"C","L","E","A","R">>
      [] s = "please restart now" ->
           <<"p","l","e","a","s","e"," ","r","e","s","t","a","r","t"," ","n","o","w">>
      [] s = "1" ->
           <<"1">>
      [] s = "6" ->
           <<"6">>
      [] s = "0" ->
           <<"0">>
      [] s = "9" ->
           <<"9">>
      [] s = "I just added the garlic, what's the smell like?" ->
           <<"I"," ","j","u","s","t"," ","a","d","d","e","d"," ","t","h","e"," ","g","a","r","l","i","c",","," ","w","h","a","t","'","s"," ","t","h","e"," ","s","m","e","l","l"," ","l","i","k","e","?">>
      [] s = "hmm" ->
           <<"h","m","m">>
      [] s = "why" ->
           <<"w","h","y">>
      [] s = " " ->
           <<" ">>
      [] s = "Simple Garlic Pasta" ->
           <<"S","i","m","p","l","e"," ","G","a","r","l","i","c"," ","P","a","s","t","a">>
      [] s = "Soft Scrambled Eggs" ->
           <<"S","o","f","t"," ","S","c","r","a","m","b","l","e","d"," ","E","g","g","s">>
      [] s = "eggs" ->
           <<"e","g","g","s">>
      [] s = "pasta" ->
           <<"p","a","s","t","a">>
      [] s = "soup" ->
           <<"s","o","u","p">>
      [] s = "soft eggs" ->
           <<"s","o","f","t"," ","e","g","g","s">>
      [] s = "2" ->
           <<"2">>
      [] s = "salt" ->
           <<"s","a","l","t">>
      [] s = "oil" ->
           <<"o","i","l">>
      [] s = "zzz" ->
           <<"z","z","z">>
      [] s = "almond" ->
           <<"a","l","m","o","n","d">>
      [] s = "3 eggs" ->
           <<"3"," ","e","g","g","s">>
      [] s = "sub olive oil for butter" ->
           <<"s","u","b"," ","o","l","i","v","e"," ","o","i","l"," ","f","o","r"," ","b","u","t","t","e","r">>
      [] s = "Sub Ghee for Butter" ->
           <<"S","u","b"," ","G","h","e","e"," ","f","o","r"," ","B","u","t","t","e","r">>
      [] s = "substitute white pepper for black pepper" ->
           <<"s","u","b","s","t","i","t","u","t","e"," ","w","h","i","t","e"," ","p","e","p","p","e","r"," ","f","o","r"," ","b","l","a","c","k"," ","p","e","p","p","e","r">>
      [] s = "sub oil for butter and sub white pepper for black pepper" ->
           <<"s","u","b"," ","o","i","l"," ","f","o","r"," ","b","u","t","t","e","r"," ","a","n","d"," ","s","u","b"," ","w","h","i","t","e"," ","p","e","p","p","e","r"," ","f","o","r"," ","b","l","a","c","k"," ","p","e","p","p","e","r">>
      [] s = "sub ghee for butter, sub tofu for salt" ->
           <<"s","u","b"," ","g","h","e","e"," ","f","o","r"," ","b","u","t","t","e","r",","," ","s","u","b"," ","t","o","f","u"," ","f","o","r"," ","s","a","l","t">>
      [] s = "sub   for oil" ->
           <<"s","u","b"," "," "," ","f","o","r"," ","o","i","l">>
      [] s = "sub x for  , thanks" ->
           <<"s","u","b"," ","x"," ","f","o","r"," "," ",","," ","t","h","a","n","k","s">>
      [] s = "sub clear broth for water" ->
           <<"s","u","b"," ","c","l","e","a","r"," ","b","r","o","t","h"," ","f","o","r"," ","w","a","t","e","r">>
      [] s = "olive oil" ->
           <<"o","l","i","v","e"," ","o","i","l">>
      [] s = "butter" ->
           <<"b","u","t","t","e","r">>
      [] s = "ghee" ->
           <<"g","h","e","e">>
      [] s = "white pepper" ->
           <<"w","h","i","t","e"," ","p","e","p","p","e","r">>
      [] s = "black pepper" ->
           <<"b","l","a","c","k"," ","p","e","p","p","e","r">>
      [] s = "butter and sub white pepper for black pepper" ->
           <<"b","u","t","t","e","r"," ","a","n","d"," ","s","u","b"," ","w","h","i","t","e"," ","p","e","p","p","e","r"," ","f","o","r"," ","b","l","a","c","k"," ","p","e","p","p","e","r">>
      [] s = "tofu" ->
           <<"t","o","f","u">>
      [] s = "x" ->
           <<"x">>
      [] s = "" ->
           <<>>
      [] s = "{\"reply\": \"Stir gently.\", \"advance_step\": true}" ->
           <<"{","\"","r","e","p","l","y","\"",":"," ","\"","S","t","i","r"," ","g","e","n","t","l","y",".","\"",","," ","\"","a","d","v","a","n","c","e","_","s","t","e","p","\"",":"," ","t","r","u","e","}">>
      [] s = "{\"reply\": \"Stir gently.\"}" ->
           <<"{","\"","r","e","p","l","y","\"",":"," ","\"","S","t","i","r"," ","g","e","n","t","l","y",".","\"","}">>
      [] s = "{\"advance_step\": true}" ->
           <<"{","\"","a","d","v","a","n","c","e","_","s","t","e","p","\"",":"," ","t","r","u","e","}">>
      [] s = "{\"reply\": \"\", \"advance_step\": false}" ->
           <<"{","\"","r","e","p","l","y","\"",":"," ","\"","\"",","," ","\"","a","d","v","a","n","c","e","_","s","t","e","p","\"",":"," ","f","a","l","s","e","}">>
      [] s = "{\"reply\": \"  \"}" ->
           <<"{","\"","r","e","p","l","y","\"",":"," ","\""," "," ","\"","}">>
      [] s = "Stir gently." ->
           <<"S","t","i","r"," ","g","e","n","t","l","y",".">>
      [] s = "  " ->
           <<" "," ">>
      [] s = "\"Stir gently.\"" ->
           <<"\"","S","t","i","r"," ","g","e","n","t","l","y",".","\"">>
      [] s = "{\"reply\": null, \"advance_step\": \"false\"}" ->
           <<"{","\"","r","e","p","l","y","\"",":"," ","n","u","l","l",","," ","\"","a","d","v","a","n","c","e","_","s","t","e","p","\"",":"," ","\"","f","a","l","s","e","\"","}">>
      [] s = "{\"reply\": \"a\",}" ->
           <<"{","\"","r","e","p","l","y","\"",":"," ","\"","a","\"",",","}">>
      [] s = "{ }" ->
           <<"{"," ","}">>
      [] s = "reply" ->
           <<"r","e","p","l","y">>
      [] s = "advance_step" ->
           <<"a","d","v","a","n","c","e","_","s","t","e","p">>
      [] s = "whats next" ->
           <<"w","h","a","t","s"," ","n","e","x","t">>
      [] s = "what is next" ->
           <<"w","h","a","t"," ","i","s"," ","n","e","x","t">>
      [] s = "kk" ->
           <<"k","k">>
      [] s = "None" ->
           <<"N","o","n","e">>
      [] s = "True" ->
           <<"T","r","u","e">>
      [] s = "False" ->
           <<"F","a","l","s","e">>
      [] s = "Soup 01" ->
           <<"S","o","u","p"," ","0","1">>
      [] s = "Soup 02" ->
           <<"S","o","u","p"," ","0","2">>
      [] s = "Soup 03" ->
           <<"S","o","u","p"," ","0","3">>
      [] s = "Soup 04" ->
           <<"S","o","u","p"," ","0","4">>
      [] s = "Soup 05" ->
           <<"S","o","u","p"," ","0","5">>
      [] s = "Soup 06" ->
           <<"S","o","u","p"," ","0","6">>
      [] s = "Soup 07" ->
           <<"S","o","u","p"," ","0","7">>
      [] s = "Soup 08" ->
           <<"S","o","u","p"," ","0","8">>
      [] s = "Soup 09" ->
           <<"S","o","u","p"," ","0","9">>
      [] s = "Soup 10" ->
           <<"S","o","u","p"," ","1","0">>
      [] s = "Soup 11" ->
           <<"S","o","u","p"," ","1","1">>
      [] s = "Soup 12" ->
           <<"S","o","u","p"," ","1","2">>
      [] s = "Soup 13" ->
           <<"S","o","u","p"," ","1","3">>
      [] s = "Soup 14" ->
           <<"S","o","u","p"," ","1","4">>
      [] s = "Soup 15" ->
           <<"S","o","u","p"," ","1","5">>
      [] s = "Soup 16" ->
           <<"S","o","u","p"," ","1","6">>
      [] s = "Soup 17" ->
           <<"S","o","u","p"," ","1","7">>
      [] s = "Soup 18" ->
           <<"S","o","u","p"," ","1","8">>
      [] s = "Soup 19" ->
           <<"S","o","u","p"," ","1","9">>
      [] s = "Soup 20" ->
           <<"S","o","u","p"," ","2","0">>
      [] s = "Soup 21" ->
           <<"S","o","u","p"," ","2","1">>
      [] s = "Soup 22" ->
           <<"S","o","u","p"," ","2","2">>
      [] s = "Soup 23" ->
           <<"S","o","u","p"," ","2","3">>
      [] s = "Soup 24" ->
           <<"S","o","u","p"," ","2","4">>
      [] s = "Soup 25" ->
           <<"S","o","u","p"," ","2","5">>
      [] s = "Soup 26" ->
           <<"S","o","u","p"," ","2","6">>
      [] s = "Soup 27" ->
           <<"S","o","u","p"," ","2","7">>
      [] s = "Soup 28" ->
           <<"S","o","u","p"," ","2","8">>
      [] s = "Soup 29" ->
           <<"S","o","u","p"," ","2","9">>
      [] s = "Soup 30" ->
           <<"S","o","u","p"," ","3","0">>
      [] s = "Soup 2" ->
           <<"S","o","u","p"," ","2">>
      [] s = " soup  1 " ->
           <<" ","s","o","u","p"," "," ","1"," ">>
      [] s = "stew" ->
           <<"s","t","e","w">>
      [] s = "p 0" ->
           <<"p"," ","0">>
      [] s = "SOUP" ->
           <<"S","O","U","P">>
      [] s = "25" ->
           <<"2","5">>
      [] s = "26" ->
           <<"2","6">>
      [] s = "p" ->
           <<"p">>
      [] s = " Cancel " ->
           <<" ","C","a","n","c","e","l"," ">>
(*CHARS-END*)

-----------------------------------------------------------------------------
(* Recipe library: the built-in fallback set *)

RecipeKeys == {"garlic_pasta", "scrambled_eggs"}

\* recipes._BUILTIN_RECIPES
RECIPE_LIBRARY(key) ==
    CASE key = "garlic_pasta" ->
           [ name |-> "Simple Garlic Pasta",
             description |-> "Fast, simple, garlicky pasta for weeknights.",
             ingredients |-> <<
               "8 ounces dry spaghetti or other pasta",
               "Salt for the pasta water",
               "3 tablespoons olive oil",
               "3-4 cloves garlic, minced",
               "Freshly ground black pepper",
               "1/2 cup reserved pasta cooking water (as needed)",
               "Grated Parmesan or Pecorino cheese for serving" >>,
             steps |-> <<
               "Bring a large pot of salted water to a boil.",
               "Add pasta and cook until just shy of al dente (about 1 minute less than package instructions).",
               "While pasta cooks, gently warm olive oil in a pan over low heat.",
               "Add minced garlic to the oil and cook gently until fragrant, not browned.",
               "Reserve a cup of pasta water, then drain the pasta.",
               "Toss pasta with the garlic oil, a splash of pasta water, salt, and pepper.",
               "Adjust with more pasta water if needed, then finish with cheese and serve." >> ]
      [] key = "scrambled_eggs" ->
           [ name |-> "Soft Scrambled Eggs",
             description |-> "Gentle, creamy scrambled eggs on the stove.",
             ingredients |-> <<
               "3 large eggs",
               "Salt",
               "1-2 teaspoons butter",
               "Freshly ground black pepper",
               "Optional: 1-2 tablespoons milk or cream" >>,
             steps |-> <<
               "Crack eggs into a bowl, add a pinch of salt, and whisk until fully combined.",
               "Heat a nonstick pan over low to medium-low heat and add a small knob of butter.",
               "Pour the eggs into the pan and let them sit for a few seconds until they just start to set at the edges.",
               "Use a spatula to gently push the eggs from the edges toward the center, forming soft curds.",
               "Continue slowly pushing and folding the eggs until they are mostly set but still slightly glossy and soft.",
               "Remove the pan from the heat; the eggs will finish cooking off the heat. Taste and adjust seasoning, then serve." >> ]

\* a data/recipes_internal.json as scripts/prepare_recipes.py writes it: a
\* dict of recipes by key; read in the order of the file
LoadedKeys ==
    <<
       "soup_01", "soup_02", "soup_03", "soup_04", "soup_05", "soup_06",
       "soup_07", "soup_08", "soup_09", "soup_10", "soup_11", "soup_12",
       "soup_13", "soup_14", "soup_15", "soup_16", "soup_17", "soup_18",
       "soup_19", "soup_20", "soup_21", "soup_22", "soup_23", "soup_24",
       "soup_25", "soup_26", "soup_27", "soup_28", "soup_29", "soup_30" >>

LoadedNames ==
    <<
       "Soup 01", "Soup 02", "Soup 03", "Soup 04", "Soup 05", "Soup 06",
       "Soup 07", "Soup 08", "Soup 09", "Soup 10", "Soup 11", "Soup 12",
       "Soup 13", "Soup 14", "Soup 15", "Soup 16", "Soup 17", "Soup 18",
       "Soup 19", "Soup 20", "Soup 21", "Soup 22", "Soup 23", "Soup 24",
       "Soup 25", "Soup 26", "Soup 27", "Soup 28", "Soup 29", "Soup 30" >>

\* RECIPE_LIBRARY[key] of a loaded file
LoadedRecipe(key) ==
    [ name |-> LoadedNames[CHOOSE i \in 1..Len(LoadedKeys) : LoadedKeys[i] = key],
      description |-> "Soup of the day.",
      ingredients |-> << "Salt", "Freshly ground black pepper" >>,
      steps |-> << "Bring a large pot of salted water to a boil." >> ]

\* RECIPE_LIBRARY[key], of the built-in set or of a loaded file
Recipe(key) ==
    IF key \in RecipeKeys THEN RECIPE_LIBRARY(key) ELSE LoadedRecipe(key)

Range(seq) == {seq[i] : i \in 1..Len(seq)}

Min(a, b) == IF a < b THEN a ELSE b
Max(a, b) == IF a > b THEN a ELSE b

\* Optional[...]: None is the empty sequence, a value v is <<v>>
None == << >>
Some(v) == <<v>>

-----------------------------------------------------------------------------
(* The messages a client sends *)

ConfirmInputs == {"k", "ok", "okay", "next", "next step", "done", "finished",
                  "K", "OK", "Okay", "Next Step", "FINISHED", " next "}

JumpInputs == {"x 0", "x 3", "x 5", "x 999", "X 7", "x  2"}

StrikeInputs == {"x eggs", "86 EGGS", "strike eggs", "strikethrough eggs",
                 "cross off eggs", "cross eggs", "x salt", "x pasta", "x oil",
                 "x zzz", "x almond", "x 3 eggs", "86 "}

UnstrikeInputs == {"unstrike eggs", "restore pasta", "uncross salt"}

ResetInputs == {"start over", "restart", "start again", "reset recipe",
                "start this recipe over", "clear", "CLEAR", "please restart now"}

ReadInputs == {"i", "ingredients", "s", "steps", "what", "1", "6", "0", "9"}

FreeInputs == {"I just added the garlic, what's the smell like?", "hmm", "why",
               "pick", "cancel", " "}

\* what is typed in recipe search mode of the Streamlit app
PickInputs == {"eggs", "pasta", "soup", "soft eggs", "2", "exit", "cancel",
               "stop picking", " Cancel "}

\* a strike or unstrike prefix with nothing after it
BarePrefixInputs == {"x ", "86 ", "restore "}

Inputs == ConfirmInputs \cup JumpInputs \cup StrikeInputs \cup UnstrikeInputs
          \cup ResetInputs \cup ReadInputs \cup FreeInputs \cup BarePrefixInputs


\* a digit string one longer than int() converts, and the messages made of it
HugeDigits == [i \in 1..(int_max_str_digits + 1) |-> "9"]
HugeInputs == {"(4301 nines)", "x (4301 nines)"}

\* the characters of a message
InputChars(m) ==
    IF m = "(4301 nines)" THEN HugeDigits
    ELSE IF m = "x (4301 nines)" THEN <<"x", " ">> \o HugeDigits
    ELSE Chars(m)

\* every substitute name a caller passes in recipe_subs
SubstituteNames == {"almond milk", "Olive Oil"}

\* every ingredient text of the library
IngredientTexts ==
    UNION {Range(RECIPE_LIBRARY(k).ingredients) : k \in RecipeKeys}

\* text.lower(), computed once for each ingredient and substitute name
LowerTable == [t \in IngredientTexts \cup SubstituteNames |-> Lower(Chars(t))]
LowerText(t) == LowerTable[t]

\* the character sequences the engines receive: each message as sent, and
\* as the API server passes it on (stripped)
InputTexts ==
    {Chars(m) : m \in Inputs \cup PickInputs}
    \cup {Strip(Chars(m)) : m \in Inputs}
    \cup {InputChars(m) : m \in HugeInputs}

-----------------------------------------------------------------------------
(* core/commands.py: the pure command engine *)

\* CookingState(recipe_key): the dataclass defaults
CookingState(recipe_key) ==
    [ recipe_key |-> recipe_key,
      current_step |-> 0,
      ingredient_subs |-> << >>,
      ingredient_strikes |-> {} ]

\* CommandResult(handled, reply, new_state = None, advance_step = False)
\* raised is "" when handle_command returns this result
CommandResult(handled, reply, new_state) ==
    [ handled |-> handled, reply |-> reply, new_state |-> new_state,
      advance_step |-> FALSE, raised |-> "" ]

\* handle_command left by an exception: no CommandResult is returned
CoreRaised(exception) ==
    [ handled |-> FALSE, reply |-> << >>, new_state |-> None,
      advance_step |-> FALSE, raised |-> exception ]

\* the lines format_ingredient_list joins
CoreIngredientLines(ingredients, subs, strikes) ==
    [ i \in 1..Len(ingredients) |->
        LET ing == ingredients[i]
            display == IF ing \in DOMAIN subs
                       THEN <<subs[ing], " (instead of ", ing, ")">>
                       ELSE <<ing>>
        IN  IF ing \in strikes
            THEN <<"- ~~">> \o display \o <<"~~">>
            ELSE <<"- ">> \o display ]

format_ingredient_list(ingredients, subs, strikes) ==
    JoinLines(CoreIngredientLines(ingredients, subs, strikes))

\* the lines of format_steps_list with the step at current_step struck too
CoreStepLines_OneMore(steps, current_step) ==
    [ i \in 1..Len(steps) |->
        IF i - 1 <= current_step
        THEN NumStr(i) \o <<". ~~", steps[i], "~~">>
        ELSE NumStr(i) \o <<". ", steps[i]>> ]

\* the lines format_steps_list joins
CoreStepLines(steps, current_step) ==
    [ i \in 1..Len(steps) |->
        IF i - 1 < current_step
        THEN NumStr(i) \o <<". ~~", steps[i], "~~">>
        ELSE NumStr(i) \o <<". ", steps[i]>> ]

format_steps_list(steps, current_step) ==
    JoinLines(CoreStepLines(steps, current_step))

\* handle_command without its jump rule: the pattern never matches
CoreStepMatch_Never(lower) ==
    None

\* re.match(r"^x\s+(\d+)$", lower): the digits of group 1, or None
CoreStepMatch(lower) ==
    IF Len(lower) >= 3 /\ lower[1] = "x" /\ IsSpace(lower[2])
    THEN LET se == SpaceRunEnd(lower, 2)
             de == DigitRunEnd(lower, se + 1)
         IN  IF de > se /\ (de = Len(lower) \/ (de = Len(lower) - 1 /\ lower[Len(lower)] = "\n"))
             THEN Some(SubSeq(lower, se + 1, de))
             ELSE None
    ELSE None

\* re.match(r"^x\s+(.+)$", lower): group 1, or None
CoreStrikeMatch(lower) ==
    IF Len(lower) >= 3 /\ lower[1] = "x" /\ IsSpace(lower[2])
    THEN LET se == SpaceRunEnd(lower, 2)
             e  == IF lower[Len(lower)] = "\n" THEN Len(lower) - 1 ELSE Len(lower)
             ps == {p \in 3..(se + 1) : p <= e /\ \A i \in p..e : lower[i] # "\n"}
         IN  IF ps = {} THEN None
             ELSE Some(SubSeq(lower, CHOOSE p \in ps : \A q \in ps : q <= p, e))
    ELSE None

\* re.match(r"^(\d+)$", s): the digits of group 1, or None
CoreNumMatch(s) ==
    LET de == DigitRunEnd(s, 1)
    IN  IF de >= 1 /\ (de = Len(s) \/ (de = Len(s) - 1 /\ s[Len(s)] = "\n"))
        THEN Some(SubSeq(s, 1, de))
        ELSE None

\* the triggers of the "next step" command
CoreNextTriggers == {Chars("k"), Chars("ok"), Chars("next"), Chars("done")}

\* [ing for ing in ingredients if target in ing.lower()]
CoreMatches(ingredients, target) ==
    {ing \in Range(ingredients) : Contains(LowerText(ing), target)}

\* what handle_command derives from user_input alone
CoreParse(user_input) ==
    LET lower == Strip(Lower(user_input))
    IN  [ lower |-> lower,
          step_match |-> CoreStepMatch(lower),
          strike_match |-> CoreStrikeMatch(lower),
          num_match |-> CoreNumMatch(Strip(user_input)) ]

\* CoreParse, computed once for each input text
CoreParsed == [u \in InputTexts |-> CoreParse(u)]
CoreParseOf(user_input) ==
    IF user_input \in InputTexts THEN CoreParsed[user_input] ELSE CoreParse(user_input)

CoreIngredientTriggers == {Chars("i"), Chars("ingredients")}
CoreStepsTriggers == {Chars("s"), Chars("steps")}
CoreWhat == Chars("what")

\* CookingState(...) built from the input state with one field replaced
\* a new state built for the library's first recipe
WithStep_FirstRecipe(state, n) ==
    [ recipe_key |-> "garlic_pasta",
      current_step |-> n,
      ingredient_subs |-> state.ingredient_subs,
      ingredient_strikes |-> state.ingredient_strikes ]

WithStep(state, n) ==
    [ recipe_key |-> state.recipe_key,
      current_step |-> n,
      ingredient_subs |-> state.ingredient_subs,
      ingredient_strikes |-> state.ingredient_strikes ]

WithStrikes(state, new_strikes) ==
    [ recipe_key |-> state.recipe_key,
      current_step |-> state.current_step,
      ingredient_subs |-> state.ingredient_subs,
      ingredient_strikes |-> new_strikes ]

\* Command: Next step
\* the next-step command starting the recipe again after its last step
CoreNext_StartingAgain(state, steps) ==
    IF state.current_step >= Len(steps)
    THEN CommandResult(TRUE, <<"You've completed all steps! u1F389">>,
                       Some(WithStep(state, 0)))
    ELSE CommandResult(TRUE,
            <<"**Step ">> \o NumStr(state.current_step + 1) \o
              <<":**\n\n", steps[state.current_step + 1]>>,
            Some(WithStep(state, state.current_step + 1)))

CoreNext(state, steps) ==
    IF state.current_step >= Len(steps)
    THEN CommandResult(TRUE, <<"You've completed all steps! u1F389">>, None)
    ELSE CommandResult(TRUE,
            <<"**Step ">> \o NumStr(state.current_step + 1) \o
              <<":**\n\n", steps[state.current_step + 1]>>,
            Some(WithStep(state, state.current_step + 1)))

\* the jump target without the clamp to the recipe's steps
CoreJumpTarget_Unclamped(digits, steps) == ToInt(digits)

\* n = int(step_match.group(1)); n = max(0, min(n, len(steps)))
CoreJumpTarget(digits, steps) == Max(0, Min(ToInt(digits), Len(steps)))

\* Command: Jump to step N; n is the jump target
CoreJump(state, steps, n) ==
    CommandResult(TRUE,
        JoinLines(<< IF n > 0
                     THEN <<"Marked steps 1-">> \o NumStr(n) \o <<" as complete.">>
                     ELSE <<"Reset to beginning.">>,
                     <<"\n**All Steps:**\n">>,
                     format_steps_list(steps, n) >>),
        Some(WithStep(state, n)))

\* Command: Strike ingredient; target is group 1 stripped, matches the
\* ingredients it is found in
\* the strike command giving a target it cannot find to the fallback
CoreStrike_GivingUp(state, ingredients, target, matches) ==
    IF matches = {}
    THEN CommandResult(FALSE, << >>, None)
    ELSE CommandResult(TRUE,
            <<"Marked as used:\n\n">> \o
              format_ingredient_list(ingredients, state.ingredient_subs,
                                     state.ingredient_strikes \cup matches),
            Some(WithStrikes(state, state.ingredient_strikes \cup matches)))

CoreStrike(state, ingredients, target, matches) ==
    IF matches = {}
    THEN CommandResult(TRUE,
            <<"Couldn't find ingredient matching '">> \o target \o <<"'">>,
            None)
    ELSE CommandResult(TRUE,
            <<"Marked as used:\n\n">> \o
              format_ingredient_list(ingredients, state.ingredient_subs,
                                     state.ingredient_strikes \cup matches),
            Some(WithStrikes(state, state.ingredient_strikes \cup matches)))

\* Command: What
CoreStatus(state, recipe_name, ingredients, steps) ==
    JoinLines(
        << <<"**Cooking: ", recipe_name, "**\n">> >>
        \o (IF Len(ingredients) > 0
            THEN << <<"**Ingredients:**">>,
                    format_ingredient_list(ingredients, state.ingredient_subs,
                                           state.ingredient_strikes),
                    << >> >>
            ELSE << >>)
        \o (IF state.current_step < Len(steps)
            THEN << <<"**Current Step (">> \o NumStr(state.current_step + 1) \o
                      <<"/">> \o NumStr(Len(steps)) \o <<"):**">>,
                    <<steps[state.current_step + 1]>> >>
            ELSE << <<"u2705 All steps complete!">> >>))

\* Command: Show specific step number
CoreShowStep(steps, step_num) ==
    IF 1 <= step_num /\ step_num <= Len(steps)
    THEN CommandResult(TRUE,
            <<"**Step ">> \o NumStr(step_num) \o <<":**\n\n", steps[step_num]>>,
            None)
    ELSE CommandResult(FALSE, << >>, None)

\* Command: Show ingredients, striking every ingredient it shows
CoreIngredients_Striking(state, ingredients) ==
    CommandResult(TRUE,
        <<"**Ingredients:**\n\n">> \o
          format_ingredient_list(ingredients, state.ingredient_subs,
                                 state.ingredient_strikes),
        Some(WithStrikes(state, Range(ingredients))))

\* Command: Show ingredients
CoreIngredients(state, ingredients) ==
    CommandResult(TRUE,
        <<"**Ingredients:**\n\n">> \o
          format_ingredient_list(ingredients, state.ingredient_subs,
                                 state.ingredient_strikes),
        None)

\* the body of handle_command, given what it derives from user_input
\* the dispatcher with a status command that moves on to the next step
CoreDispatch_StatusAdvances(parsed, state, recipe_name, ingredients, steps) ==
    IF parsed.lower \in CoreIngredientTriggers THEN
        CoreIngredients(state, ingredients)
    ELSE IF parsed.lower \in CoreStepsTriggers THEN
        CommandResult(TRUE,
            <<"**Steps:**\n\n">> \o format_steps_list(steps, state.current_step),
            None)
    ELSE IF parsed.lower \in CoreNextTriggers THEN
        CoreNext(state, steps)
    ELSE IF parsed.step_match # None THEN
        IF IntRaises(parsed.step_match[1]) THEN CoreRaised("ValueError")
        ELSE CoreJump(state, steps, CoreJumpTarget(parsed.step_match[1], steps))
    ELSE IF parsed.strike_match # None THEN
        CoreStrike(state, ingredients, Strip(parsed.strike_match[1]),
                   CoreMatches(ingredients, Strip(parsed.strike_match[1])))
    ELSE IF parsed.lower = CoreWhat THEN
        CommandResult(TRUE, CoreStatus(state, recipe_name, ingredients, steps),
                      Some(WithStep(state, Min(state.current_step + 1, Len(steps)))))
    ELSE IF parsed.num_match # None THEN
        IF IntRaises(parsed.num_match[1]) THEN CoreRaised("ValueError")
        ELSE CoreShowStep(steps, ToInt(parsed.num_match[1]))
    ELSE CommandResult(FALSE, << >>, None)

CoreDispatch(parsed, state, recipe_name, ingredients, steps) ==
    IF parsed.lower \in CoreIngredientTriggers THEN
        CoreIngredients(state, ingredients)
    ELSE IF parsed.lower \in CoreStepsTriggers THEN
        CommandResult(TRUE,
            <<"**Steps:**\n\n">> \o format_steps_list(steps, state.current_step),
            None)
    ELSE IF parsed.lower \in CoreNextTriggers THEN
        CoreNext(state, steps)
    ELSE IF parsed.step_match # None THEN
        IF IntRaises(parsed.step_match[1]) THEN CoreRaised("ValueError")
        ELSE CoreJump(state, steps, CoreJumpTarget(parsed.step_match[1], steps))
    ELSE IF parsed.strike_match # None THEN
        CoreStrike(state, ingredients, Strip(parsed.strike_match[1]),
                   CoreMatches(ingredients, Strip(parsed.strike_match[1])))
    ELSE IF parsed.lower = CoreWhat THEN
        CommandResult(TRUE, CoreStatus(state, recipe_name, ingredients, steps), None)
    ELSE IF parsed.num_match # None THEN
        IF IntRaises(parsed.num_match[1]) THEN CoreRaised("ValueError")
        ELSE CoreShowStep(steps, ToInt(parsed.num_match[1]))
    ELSE CommandResult(FALSE, << >>, None)

\* handle_command with a memory of its own: from the third call of a
\* caller on it answers nothing
handle_command_Remembering(user_input, state, recipe_name, ingredients, steps) ==
    IF Len(calls) >= 2
    THEN CommandResult(FALSE, << >>, None)
    ELSE CoreDispatch(CoreParseOf(user_input), state, recipe_name, ingredients, steps)

\* handle_command(user_input, state, recipe_name, ingredients, steps);
\* user_input is the sequence of the input's characters
handle_command(user_input, state, recipe_name, ingredients, steps) ==
    CoreDispatch(CoreParseOf(user_input), state, recipe_name, ingredients, steps)

-----------------------------------------------------------------------------
(* view_helpers.py *)

\* format_working_ingredients_markdown: one line per ingredient
format_working_ingredients_markdown(recipe_ingredients, recipe_subs, strikes) ==
    [ i \in 1..Len(recipe_ingredients) |->
        LET ing == recipe_ingredients[i]
            \* recipe_subs.get(ing), truthy: a recorded, non-empty substitute
            has_sub == ing \in DOMAIN recipe_subs /\ recipe_subs[ing] # ""
            display == IF has_sub
                       THEN <<recipe_subs[ing], " (instead of ", ing, ")">>
                       ELSE <<ing>>
        IN  IF ing \in strikes
            THEN <<"- ~~">> \o display \o <<"~~">>
            ELSE <<"- ">> \o display ]

\* the lines of format_steps_with_progress_markdown numbered from idx
\* instead of idx + 1
format_steps_with_progress_markdown_FromZero(steps, current_step) ==
    [ i \in 1..Len(steps) |->
        IF i - 1 < current_step
        THEN NumStr(i - 1) \o <<". ~~", steps[i], "~~">>
        ELSE NumStr(i - 1) \o <<". ", steps[i]>> ]

\* format_steps_with_progress_markdown: one line per step
format_steps_with_progress_markdown(steps, current_step) ==
    [ i \in 1..Len(steps) |->
        IF i - 1 < current_step
        THEN NumStr(i) \o <<". ~~", steps[i], "~~">>
        ELSE NumStr(i) \o <<". ", steps[i]>> ]

-----------------------------------------------------------------------------
(* commands_headless.py *)

COMMANDS_CONDENSED ==
    "Commands: i=ingredients  |  s=steps  |  x=item/steps done  |  k=next step  |  what=status  |  clear=restart  |  pick=choose recipe"

\* SessionUpdate(): no change requested
SessionUpdate ==
    [ new_current_step |-> None,
      strikes_to_add |-> {},
      strikes_to_remove |-> {},
      subs_to_add |-> << >>,
      subs_to_remove |-> {} ]

\* the dict handle_user_command_headless returns
HeadlessResult(handled, reply_text, session_update) ==
    [ handled |-> handled, reply_text |-> reply_text, advance_step |-> FALSE,
      session_update |-> session_update ]

start_over_triggers ==
    << Chars("start over"), Chars("restart"), Chars("start again"),
       Chars("reset recipe"), Chars("start this recipe over"), Chars("clear") >>

next_step_triggers ==
    { Chars("k"), Chars("ok"), Chars("okay"), Chars("next"), Chars("next step"),
      Chars("done"), Chars("finished") }

strike_prefixes ==
    << Chars("strikethrough "), Chars("strike "), Chars("cross off "),
       Chars("x "), Chars("cross "), Chars("86 ") >>

unstrike_prefixes ==
    << Chars("unstrike "), Chars("uncross "), Chars("restore ") >>

ingredient_triggers ==
    << Chars("ingredients"), Chars("ingredient list"),
       Chars("what are the ingredients"), Chars("show ingredients"),
       Chars("list the ingredients"), Chars("what do i need") >>

step_triggers ==
    << Chars("show all steps"), Chars("steps"), Chars("list steps"),
       Chars("show steps"), Chars("what are the steps"), Chars("s") >>

\* any(phrase == lower or phrase in lower for phrase in triggers)
AnyPhraseIn(triggers, lower) ==
    \E i \in 1..Len(triggers) : triggers[i] = lower \/ Contains(lower, triggers[i])

\* re.match(r"^x\s+(\d+)\s*$", lower): the digits of group 1, or None
StepXMatch(lower) ==
    IF Len(lower) >= 3 /\ lower[1] = "x" /\ IsSpace(lower[2])
    THEN LET se == SpaceRunEnd(lower, 2)
             de == DigitRunEnd(lower, se + 1)
         IN  IF de > se /\ AllSpace(lower, de + 1)
             THEN Some(SubSeq(lower, se + 1, de))
             ELSE None
    ELSE None

\* re.match(r"^\s*(\d+)\s*$", user_input): the digits of group 1, or None
NumOnlyMatch(user_input) ==
    LET se == SpaceRunEnd(user_input, 1)
        de == DigitRunEnd(user_input, se + 1)
    IN  IF de > se /\ AllSpace(user_input, de + 1)
        THEN Some(SubSeq(user_input, se + 1, de))
        ELSE None

\* the first prefix of the list that stripped starts with: its index, or 0
FirstPrefix(prefixes, stripped) ==
    IF \E i \in 1..Len(prefixes) : StartsWith(stripped, prefixes[i])
    THEN CHOOSE i \in 1..Len(prefixes) :
            /\ StartsWith(stripped, prefixes[i])
            /\ \A j \in 1..(i - 1) : ~StartsWith(stripped, prefixes[j])
    ELSE 0

\* command_type and target_name of the strike / unstrike block
StrikeCommand(stripped) ==
    LET sp == FirstPrefix(strike_prefixes, stripped)
        up == FirstPrefix(unstrike_prefixes, stripped)
    IN  IF sp > 0
        THEN [ command_type |-> "strike",
               target_name |-> Strip(DropPrefix(stripped, Len(strike_prefixes[sp]))) ]
        ELSE IF up > 0
        THEN [ command_type |-> "unstrike",
               target_name |-> Strip(DropPrefix(stripped, Len(unstrike_prefixes[up]))) ]
        ELSE [ command_type |-> "none", target_name |-> << >> ]

\* the searchable text without the substitute name
SearchText_NoSubstitute(base_ing, recipe_subs) ==
    LowerText(base_ing)

\* the ingredient's searchable text: its lower-cased text, then a space and
\* the lower-cased substitute name when a non-empty one is recorded
SearchText(base_ing, recipe_subs) ==
    IF base_ing \in DOMAIN recipe_subs /\ recipe_subs[base_ing] # ""
    THEN LowerText(base_ing) \o <<" ">> \o LowerText(recipe_subs[base_ing])
    ELSE LowerText(base_ing)

\* matching_keys holding the substitute's name for an ingredient found by
\* its substitute
MatchingKeys_SubstituteNames(recipe_ingredients, recipe_subs, target_name) ==
    { IF Contains(LowerText(base_ing), Lower(target_name))
      THEN base_ing ELSE recipe_subs[base_ing] :
        base_ing \in { b \in Range(recipe_ingredients) :
            Contains(SearchText(b, recipe_subs), Lower(target_name)) } }

\* matching_keys, as the set of its elements
MatchingKeys(recipe_ingredients, recipe_subs, target_name) ==
    { base_ing \in Range(recipe_ingredients) :
        Contains(SearchText(base_ing, recipe_subs), Lower(target_name)) }

\* what handle_user_command_headless derives from user_input alone
HeadlessParse(user_input) ==
    LET lower == Strip(Lower(user_input))
    IN  [ lower |-> lower,
          is_reset |-> AnyPhraseIn(start_over_triggers, lower),
          step_x_match |-> StepXMatch(lower),
          strike |-> StrikeCommand(Strip(lower)),
          is_ingredients |-> lower = Chars("i") \/ AnyPhraseIn(ingredient_triggers, lower),
          is_steps |-> AnyPhraseIn(step_triggers, lower),
          num_match |-> NumOnlyMatch(user_input) ]

\* HeadlessParse, computed once for each input text
HeadlessParsed == [u \in InputTexts |-> HeadlessParse(u)]
HeadlessParseOf(user_input) ==
    IF user_input \in InputTexts THEN HeadlessParsed[user_input]
    ELSE HeadlessParse(user_input)

HeadlessWhat == Chars("what")

\* f"I couldn't find an ingredient matching '{target_name}' in this recipe."
NotFoundLine(target_name) ==
    <<"I couldn't find an ingredient matching '">> \o target_name \o <<"' in this recipe.">>

\* 1. full reset / clear
HeadlessReset(recipe_name, ingredient_strikes) ==
    HeadlessResult(TRUE,
        <<"Okay, I've reset your progress. You're back at the beginning of ",
          recipe_name, ".">>,
        Some([SessionUpdate EXCEPT !.new_current_step = Some(0),
                                   !.strikes_to_remove = ingredient_strikes]))

\* the jump target without the clamp to the recipe's steps
HeadlessJumpTarget_Unclamped(digits, recipe_steps) ==
    ToInt(digits)

\* n = int(step_x_match.group(1)); n = max(0, min(n, len(recipe_steps)))
HeadlessJumpTarget(digits, recipe_steps) ==
    Max(0, Min(ToInt(digits), Len(recipe_steps)))

\* 2. mark steps complete with "x N"; n is the jump target
HeadlessJump(recipe_steps, n) ==
    HeadlessResult(TRUE,
        JoinLines(
          << IF n = 0
             THEN <<"Okay, I've reset your step progress. You're back at the beginning.">>
             ELSE IF n >= Len(recipe_steps)
             THEN <<"Okay, I've marked all ">> \o NumStr(Len(recipe_steps)) \o
                  <<" steps as done. ", "You've completed the recipe!">>
             ELSE <<"Got it. I've marked steps 1 through ">> \o NumStr(n) \o
                  <<" as done. ", "You're now on step ">> \o NumStr(n + 1) \o <<".">>,
             << >>,
             <<"Here are all the steps with your updated progress:">>,
             << >> >>
          \o format_steps_with_progress_markdown(recipe_steps, n)),
        Some([SessionUpdate EXCEPT !.new_current_step = Some(n)]))

\* 3. next-step commands
\* the next-step command taking the last step for done before it is reached
HeadlessNext_StoppingShort(recipe_steps, current_step) ==
    IF current_step + 1 < Len(recipe_steps)
    THEN HeadlessResult(TRUE,
            <<"Next step:\n\n">> \o NumStr(current_step + 1) \o
              <<". ", recipe_steps[current_step + 1]>>,
            Some([SessionUpdate EXCEPT
                    !.new_current_step = Some(Min(current_step + 1, Len(recipe_steps)))]))
    ELSE HeadlessResult(TRUE,
            <<"You've already completed all the steps in this recipe.">>,
            Some(SessionUpdate))

HeadlessNext(recipe_steps, current_step) ==
    IF current_step < Len(recipe_steps)
    THEN HeadlessResult(TRUE,
            <<"Next step:\n\n">> \o NumStr(current_step + 1) \o
              <<". ", recipe_steps[current_step + 1]>>,
            Some([SessionUpdate EXCEPT
                    !.new_current_step = Some(Min(current_step + 1, Len(recipe_steps)))]))
    ELSE HeadlessResult(TRUE,
            <<"You've already completed all the steps in this recipe.">>,
            Some(SessionUpdate))

\* an unstrike that restores every struck ingredient, not only the matching ones
HeadlessStrike_RestoringAll(command_type, target_name, matching_keys, recipe_ingredients, recipe_subs, ingredient_strikes) ==
    IF target_name = << >>
    THEN HeadlessResult(TRUE,
            <<"Tell me which ingredient to change, for example: u0060x oilu0060 or u006086 butteru0060.">>,
            None)
    ELSE IF matching_keys = {}
    THEN HeadlessResult(TRUE,
            JoinLines(
              << NotFoundLine(target_name),
                 <<"Here are the ingredients I see:">>,
                 << >> >>
              \o format_working_ingredients_markdown(
                     recipe_ingredients, recipe_subs, ingredient_strikes)),
            None)
    ELSE IF command_type = "strike"
    THEN HeadlessResult(TRUE,
            JoinLines(
              << <<"Got it. I updated your ingredient list. Here is the current version:">>,
                 << >> >>
              \o format_working_ingredients_markdown(
                     recipe_ingredients, recipe_subs,
                     ingredient_strikes \cup matching_keys)),
            Some([SessionUpdate EXCEPT !.strikes_to_add = matching_keys]))
    ELSE HeadlessResult(TRUE,
            JoinLines(
              << <<"Got it. I restored those ingredients. Here is the current list:">>,
                 << >> >>
              \o format_working_ingredients_markdown(
                     recipe_ingredients, recipe_subs,
                     ingredient_strikes \ matching_keys)),
            Some([SessionUpdate EXCEPT !.strikes_to_remove = ingredient_strikes]))

\* 4. ingredient strike / unstrike; matching_keys are the ingredients whose
\* searchable text holds the target
HeadlessStrike(command_type, target_name, matching_keys, recipe_ingredients, recipe_subs, ingredient_strikes) ==
    IF target_name = << >>
    THEN HeadlessResult(TRUE,
            <<"Tell me which ingredient to change, for example: u0060x oilu0060 or u006086 butteru0060.">>,
            None)
    ELSE IF matching_keys = {}
    THEN HeadlessResult(TRUE,
            JoinLines(
              << NotFoundLine(target_name),
                 <<"Here are the ingredients I see:">>,
                 << >> >>
              \o format_working_ingredients_markdown(
                     recipe_ingredients, recipe_subs, ingredient_strikes)),
            None)
    ELSE IF command_type = "strike"
    THEN HeadlessResult(TRUE,
            JoinLines(
              << <<"Got it. I updated your ingredient list. Here is the current version:">>,
                 << >> >>
              \o format_working_ingredients_markdown(
                     recipe_ingredients, recipe_subs,
                     ingredient_strikes \cup matching_keys)),
            Some([SessionUpdate EXCEPT !.strikes_to_add = matching_keys]))
    ELSE HeadlessResult(TRUE,
            JoinLines(
              << <<"Got it. I restored those ingredients. Here is the current list:">>,
                 << >> >>
              \o format_working_ingredients_markdown(
                     recipe_ingredients, recipe_subs,
                     ingredient_strikes \ matching_keys)),
            Some([SessionUpdate EXCEPT !.strikes_to_remove = matching_keys]))

\* 5. ingredient list
HeadlessIngredients(recipe_ingredients, recipe_subs, ingredient_strikes) ==
    IF Len(recipe_ingredients) > 0
    THEN HeadlessResult(TRUE,
            JoinLines(
              << <<"Here are the ingredients for this recipe (with substitutions applied):">>,
                 << >> >>
              \o format_working_ingredients_markdown(
                     recipe_ingredients, recipe_subs, ingredient_strikes)),
            None)
    ELSE HeadlessResult(TRUE,
            <<"This recipe does not have a stored ingredient list yet.">>, None)

\* 6. steps listing
HeadlessSteps(recipe_steps, current_step) ==
    IF Len(recipe_steps) > 0
    THEN HeadlessResult(TRUE,
            JoinLines(
              << <<"Here are all the steps for this recipe:">>, << >> >>
              \o format_steps_with_progress_markdown(recipe_steps, current_step)),
            None)
    ELSE HeadlessResult(TRUE,
            <<"This recipe does not have any steps defined yet.">>, None)

\* 7. "what" status
HeadlessStatus(recipe_name, recipe_steps, recipe_ingredients, recipe_subs, ingredient_strikes, current_step) ==
    HeadlessResult(TRUE,
        JoinLines(
          << <<"### You are cooking: ", recipe_name>>, << >> >>
          \o (IF Len(recipe_ingredients) > 0
              THEN << <<"#### Ingredients (with substitutions applied)">>, << >> >>
                   \o format_working_ingredients_markdown(
                          recipe_ingredients, recipe_subs, ingredient_strikes)
                   \o << << >> >>
              ELSE << >>)
          \o (IF 0 <= current_step /\ current_step < Len(recipe_steps)
              THEN << <<"#### Current step">>, << >>,
                      NumStr(current_step + 1) \o
                        <<". ", recipe_steps[current_step + 1]>> >>
              ELSE << <<"You've completed all the steps in this recipe.">> >>)
          \o << << >>, <<"---">>, << >>, <<COMMANDS_CONDENSED>> >>),
        None)

\* 8. numeric-only input: show step
HeadlessShowStep(recipe_steps, step_num) ==
    IF 0 <= step_num - 1 /\ step_num - 1 < Len(recipe_steps)
    THEN HeadlessResult(TRUE,
            NumStr(step_num) \o <<". ", recipe_steps[step_num]>>, None)
    ELSE HeadlessResult(TRUE,
            <<"This recipe only has ">> \o NumStr(Len(recipe_steps)) \o <<" steps.">>,
            None)

\* the body of handle_user_command_headless, given what it derives from
\* user_input
HeadlessDispatch(parsed, recipe_name, recipe_description, recipe_steps, recipe_ingredients, recipe_subs, ingredient_strikes, current_step) ==
    IF parsed.is_reset THEN
        HeadlessReset(recipe_name, ingredient_strikes)
    ELSE IF parsed.step_x_match # None THEN
        HeadlessJump(recipe_steps,
                     HeadlessJumpTarget(parsed.step_x_match[1], recipe_steps))
    ELSE IF parsed.lower \in next_step_triggers THEN
        HeadlessNext(recipe_steps, current_step)
    ELSE IF parsed.strike.command_type # "none" THEN
        HeadlessStrike(parsed.strike.command_type, parsed.strike.target_name,
                       MatchingKeys(recipe_ingredients, recipe_subs,
                                    parsed.strike.target_name),
                       recipe_ingredients, recipe_subs, ingredient_strikes)
    ELSE IF parsed.is_ingredients THEN
        HeadlessIngredients(recipe_ingredients, recipe_subs, ingredient_strikes)
    ELSE IF parsed.is_steps THEN
        HeadlessSteps(recipe_steps, current_step)
    ELSE IF parsed.lower = HeadlessWhat THEN
        HeadlessStatus(recipe_name, recipe_steps, recipe_ingredients, recipe_subs,
                       ingredient_strikes, current_step)
    ELSE IF parsed.num_match # None THEN
        HeadlessShowStep(recipe_steps, ToInt(parsed.num_match[1]))
    ELSE HeadlessResult(FALSE, << >>, None)

handle_user_command_headless(user_input, recipe_name, recipe_description, recipe_steps, recipe_ingredients, recipe_subs, ingredient_strikes, current_step) ==
    HeadlessDispatch(HeadlessParseOf(user_input), recipe_name, recipe_description,
                     recipe_steps, recipe_ingredients, recipe_subs,
                     ingredient_strikes, current_step)

\* The changes a SessionUpdate names, applied to a Cooking State: the step is
\* set when new_current_step is given, the strikes and substitutions named
\* are added and removed.  None applies nothing.
ApplySessionUpdate(state, session_update) ==
    IF session_update = None THEN state
    ELSE LET u == session_update[1]
             subs == state.ingredient_subs
             keys == (DOMAIN subs \cup DOMAIN u.subs_to_add) \ u.subs_to_remove
         IN  [ recipe_key |-> state.recipe_key,
               current_step |-> IF u.new_current_step # None
                                THEN u.new_current_step[1]
                                ELSE state.current_step,
               ingredient_subs |->
                   [k \in keys |-> IF k \in DOMAIN u.subs_to_add
                                   THEN u.subs_to_add[k] ELSE subs[k]],
               ingredient_strikes |->
                   (state.ingredient_strikes \cup u.strikes_to_add)
                       \ u.strikes_to_remove ]

-----------------------------------------------------------------------------
(* commands.py: the command engine of the Streamlit app.  It reads and     *)
(* writes st.session_state: the Cooking State of the current recipe and    *)
(* the recipe search ("pick") mode.                                        *)

\* pending_recipe_pick and pick_candidates of st.session_state; << >> is
\* pick_candidates None or absent
PickState(pending_recipe_pick, pick_candidates) ==
    [ pending_recipe_pick |-> pending_recipe_pick,
      pick_candidates |-> pick_candidates ]

MAX_SHOW == 25

\* get_recipe_keys_and_labels(): the keys in the order of their lower-cased
\* labels ("simple garlic pasta" < "soft scrambled eggs")
get_recipe_keys_and_labels == <<"garlic_pasta", "scrambled_eggs">>

\* str.split(): the whitespace-separated tokens of s
RECURSIVE Split(_)
Split(s) ==
    LET t == Strip(s)
        e == IF \E i \in 1..Len(t) : IsSpace(t[i])
             THEN (CHOOSE i \in 1..Len(t) :
                      IsSpace(t[i]) /\ \A j \in 1..(i - 1) : ~IsSpace(t[j])) - 1
             ELSE Len(t)
    IN  IF t = << >> THEN << >>
        ELSE <<SubSeq(t, 1, e)>> \o Split(SubSeq(t, e + 1, Len(t)))

\* the keys of the recipes whose lower-cased label holds every token
PickCandidates(items, tokens) ==
    SelectSeq(items,
              LAMBDA key : \A i \in 1..Len(tokens) :
                  Contains(Lower(Chars(Recipe(key).name)), tokens[i]))

\* what handle_user_command returns, or rerun when it ends in st.rerun(),
\* with st.session_state as the call leaves it
StreamlitResult(handled, reply_text, rerun, state, pick_state) ==
    [ handled |-> handled, reply_text |-> reply_text, advance_step |-> FALSE,
      rerun |-> rerun, state |-> state, pick |-> pick_state,
      raised |-> "" ]

\* an exception leaves handle_user_command: nothing is returned, and
\* st.session_state is as it was
StreamlitRaised(exc, state, pick_state) ==
    [StreamlitResult(FALSE, << >>, FALSE, state, pick_state) EXCEPT !.raised = exc]

\* a reset that leaves the session in recipe search mode
reset_conversation_for_recipe_StillPicking(new_recipe_key) ==
    StreamlitResult(FALSE, << >>, TRUE,
                    CookingState(new_recipe_key), PickState(TRUE, << >>))

\* reset_conversation_for_recipe(new_recipe_key), then st.rerun()
reset_conversation_for_recipe(new_recipe_key) ==
    StreamlitResult(FALSE, << >>, TRUE,
                    CookingState(new_recipe_key), PickState(FALSE, << >>))

\* a cancel rule that knows one keyword
StreamlitCancelTriggers_OneWord == {Chars("cancel")}

StreamlitCancelTriggers == {Chars("cancel"), Chars("exit"), Chars("stop picking")}

\* what handle_user_command derives from user_input alone
StreamlitParse(user_input) ==
    LET lower == Strip(Lower(user_input))
    IN  [ lower |-> lower,
          is_cancel |-> lower \in StreamlitCancelTriggers,
          is_reset |-> AnyPhraseIn(start_over_triggers, lower),
          step_x_match |-> StepXMatch(lower),
          is_pick |-> lower = Chars("pick"),
          tokens |-> Split(Strip(lower)),
          num_match |-> NumOnlyMatch(user_input),
          is_ingredients |-> lower = Chars("i") \/ AnyPhraseIn(ingredient_triggers, lower),
          is_steps |-> AnyPhraseIn(step_triggers, lower) ]

\* StreamlitParse, computed once for each input text
StreamlitParsed == [u \in InputTexts |-> StreamlitParse(u)]
StreamlitParseOf(user_input) ==
    IF user_input \in InputTexts THEN StreamlitParsed[user_input]
    ELSE StreamlitParse(user_input)

\* n = int(step_x_match.group(1)); if n < 0: n = 0;
\* if n > len(recipe_steps): n = len(recipe_steps)
StreamlitJumpTarget(digits, recipe_steps) ==
    IF ToInt(digits) < 0 THEN 0
    ELSE IF ToInt(digits) > Len(recipe_steps) THEN Len(recipe_steps)
    ELSE ToInt(digits)

\* 2. mark steps complete with "x N"; n is the jump target
StreamlitJump(recipe_steps, n, state, pick_state) ==
    StreamlitResult(TRUE,
        JoinLines(
          << IF n = 0
             THEN <<"Okay, Iu2019ve reset your step progress. Youu2019re back at the beginning.">>
             ELSE IF n >= Len(recipe_steps)
             THEN <<"Okay, Iu2019ve marked all ">> \o NumStr(Len(recipe_steps)) \o
                  <<" steps as done. ", "Youu2019ve completed the recipe!">>
             ELSE <<"Got it. Iu2019ve marked steps 1 through ">> \o NumStr(n) \o
                  <<" as done. ", "Youu2019re now on step ">> \o NumStr(n + 1) \o <<".">>,
             << >>,
             <<"Here are all the steps with your updated progress:">>,
             << >> >>
          \o format_steps_with_progress_markdown(recipe_steps, n)),
        FALSE, WithStep(state, n), pick_state)

\* a pick that offers the whole catalog as candidates
StreamlitPick_ListingAll(state) ==
    StreamlitResult(TRUE,
        JoinLines(<< <<"Recipe search mode activated.">>,
                     <<"What are you in the mood for?">>,
                     <<"Try a keyword like 'eggs', 'pasta', 'soup', or 'chicken'.">>,
                     <<"I'll show matching recipes and you can pick by number.">> >>),
        FALSE, state, PickState(TRUE, get_recipe_keys_and_labels))

\* 3. enter pick mode
StreamlitPick(state) ==
    StreamlitResult(TRUE,
        JoinLines(<< <<"Recipe search mode activated.">>,
                     <<"What are you in the mood for?">>,
                     <<"Try a keyword like 'eggs', 'pasta', 'soup', or 'chicken'.">>,
                     <<"I'll show matching recipes and you can pick by number.">> >>),
        FALSE, state, PickState(TRUE, << >>))

\* a search that stores every match, shown or not
StreamlitFilter_KeepingAll(query, candidates, state, pick_state) ==
    IF query = << >>
    THEN StreamlitResult(TRUE,
            <<"Please type a keyword for the kind of recipe you want.\n",
              "For example: 'eggs', 'pasta', 'soup', or 'chicken'.">>,
            FALSE, state, pick_state)
    ELSE IF candidates = << >>
    THEN StreamlitResult(TRUE,
            <<"I couldn't find any recipes matching '">> \o query \o <<"'.\n",
              "Try a different keyword like 'eggs', 'pasta', 'soup', or 'chicken'.">>,
            FALSE, state, pick_state)
    ELSE StreamlitResult(TRUE,
            JoinLines(
              << <<"Recipes matching '">> \o query \o <<"':">>, << >> >>
              \o [ idx \in 1..Min(Len(candidates), MAX_SHOW) |->
                     NumStr(idx) \o <<". ", Recipe(candidates[idx]).name>> ]
              \o (IF Max(0, Len(candidates) - MAX_SHOW) > 0
                  THEN << << >>,
                          <<"...and ">> \o NumStr(Max(0, Len(candidates) - MAX_SHOW)) \o
                            <<" more results. ",
                              "Try adding another word to narrow it down.">> >>
                  ELSE << >>)
              \o << << >>,
                    <<"Reply with a number to pick one of these recipes, ",
                      "or type another keyword to search again.">> >>),
            FALSE, state,
            PickState(TRUE, candidates))

\* 4. pick-mode keyword filtering; candidates are the recipes matching the query
StreamlitFilter(query, candidates, state, pick_state) ==
    IF query = << >>
    THEN StreamlitResult(TRUE,
            <<"Please type a keyword for the kind of recipe you want.\n",
              "For example: 'eggs', 'pasta', 'soup', or 'chicken'.">>,
            FALSE, state, pick_state)
    ELSE IF candidates = << >>
    THEN StreamlitResult(TRUE,
            <<"I couldn't find any recipes matching '">> \o query \o <<"'.\n",
              "Try a different keyword like 'eggs', 'pasta', 'soup', or 'chicken'.">>,
            FALSE, state, pick_state)
    ELSE StreamlitResult(TRUE,
            JoinLines(
              << <<"Recipes matching '">> \o query \o <<"':">>, << >> >>
              \o [ idx \in 1..Min(Len(candidates), MAX_SHOW) |->
                     NumStr(idx) \o <<". ", Recipe(candidates[idx]).name>> ]
              \o (IF Max(0, Len(candidates) - MAX_SHOW) > 0
                  THEN << << >>,
                          <<"...and ">> \o NumStr(Max(0, Len(candidates) - MAX_SHOW)) \o
                            <<" more results. ",
                              "Try adding another word to narrow it down.">> >>
                  ELSE << >>)
              \o << << >>,
                    <<"Reply with a number to pick one of these recipes, ",
                      "or type another keyword to search again.">> >>),
            FALSE, state,
            PickState(TRUE, SubSeq(candidates, 1, Min(Len(candidates), MAX_SHOW))))

\* the recipe choice made from the whole catalog
StreamlitChoose_Catalog(n, state, pick_state) ==
    IF pick_state.pick_candidates = << >>
    THEN StreamlitResult(TRUE,
            <<"Please type a keyword for the kind of recipe you want first.\n",
              "For example: 'eggs', 'pasta', 'soup', or 'chicken'.">>,
            FALSE, state, pick_state)
    ELSE reset_conversation_for_recipe(get_recipe_keys_and_labels[n])

\* 5. numeric-only input in pick mode: recipe choice
StreamlitChoose(n, state, pick_state) ==
    IF pick_state.pick_candidates = << >>
    THEN StreamlitResult(TRUE,
            <<"Please type a keyword for the kind of recipe you want first.\n",
              "For example: 'eggs', 'pasta', 'soup', or 'chicken'.">>,
            FALSE, state, pick_state)
    ELSE IF 1 <= n /\ n <= Len(pick_state.pick_candidates)
    THEN reset_conversation_for_recipe(pick_state.pick_candidates[n])
    ELSE StreamlitResult(TRUE,
            <<"There are only ">> \o NumStr(Len(pick_state.pick_candidates)) \o
              <<" recipes in the current list. ",
                "Please pick a number between 1 and ">> \o
              NumStr(Len(pick_state.pick_candidates)) \o
              <<", ", "or type another keyword to search again.">>,
            FALSE, state, pick_state)

\* the replies of rules 5 (outside pick mode), 6, 7 and 8 are those of
\* commands_headless: the text of a headless result on st.session_state
StreamlitReply(result, state, pick_state) ==
    StreamlitResult(result.handled, result.reply_text, FALSE, state, pick_state)

\* the body of handle_user_command, given what it derives from user_input;
\* state and pick_state are st.session_state
StreamlitDispatchIn(items, parsed, recipe_name, recipe_description, recipe_steps, recipe_ingredients, recipe_subs, state, pick_state) ==
    IF parsed.is_cancel /\ pick_state.pending_recipe_pick THEN
        StreamlitResult(TRUE, <<"Okay, leaving recipe search mode.">>, FALSE,
                        state, PickState(FALSE, << >>))
    ELSE IF parsed.is_reset THEN
        reset_conversation_for_recipe(state.recipe_key)
    ELSE IF parsed.step_x_match # None THEN
        IF IntRaises(parsed.step_x_match[1])
        THEN StreamlitRaised("ValueError", state, pick_state)
        ELSE
        StreamlitJump(recipe_steps,
                      StreamlitJumpTarget(parsed.step_x_match[1], recipe_steps),
                      state, pick_state)
    ELSE IF parsed.is_pick THEN
        StreamlitPick(state)
    ELSE IF pick_state.pending_recipe_pick /\ parsed.num_match = None THEN
        StreamlitFilter(parsed.lower, PickCandidates(items, parsed.tokens), state, pick_state)
    ELSE IF parsed.num_match # None THEN
        IF IntRaises(parsed.num_match[1])
        THEN StreamlitRaised("ValueError", state, pick_state)
        ELSE IF pick_state.pending_recipe_pick
        THEN StreamlitChoose(ToInt(parsed.num_match[1]), state, pick_state)
        ELSE StreamlitReply(HeadlessShowStep(recipe_steps, ToInt(parsed.num_match[1])),
                            state, pick_state)
    ELSE IF parsed.is_ingredients THEN
        StreamlitReply(HeadlessIngredients(recipe_ingredients, recipe_subs,
                                           state.ingredient_strikes),
                       state, pick_state)
    ELSE IF parsed.is_steps THEN
        StreamlitReply(HeadlessSteps(recipe_steps, state.current_step),
                       state, pick_state)
    ELSE IF parsed.lower = HeadlessWhat THEN
        StreamlitReply(HeadlessStatus(recipe_name, recipe_steps, recipe_ingredients,
                                      recipe_subs, state.ingredient_strikes,
                                      state.current_step),
                       state, pick_state)
    ELSE StreamlitResult(FALSE, << >>, FALSE, state, pick_state)

\* handle_user_command with the built-in recipes as RECIPE_LIBRARY
StreamlitDispatch(parsed, recipe_name, recipe_description, recipe_steps, recipe_ingredients, recipe_subs, state, pick_state) ==
    StreamlitDispatchIn(get_recipe_keys_and_labels, parsed, recipe_name,
                        recipe_description, recipe_steps, recipe_ingredients,
                        recipe_subs, state, pick_state)

handle_user_command(user_input, recipe_name, recipe_description, recipe_steps, recipe_ingredients, recipe_subs, state, pick_state) ==
    StreamlitDispatch(StreamlitParseOf(user_input), recipe_name, recipe_description,
                      recipe_steps, recipe_ingredients, recipe_subs, state, pick_state)

-----------------------------------------------------------------------------
(* app.py: the chat input of the Streamlit page, as far as the reset and   *)
(* substitution commands go.  A substitute name is kept as the characters  *)
(* the pattern captured.                                                   *)

\* regex \w and the class [^,;.]
IsWordChar(c) ==
    \/ \E i \in 1..26 : UpperAZ[i] = c \/ LowerAZ[i] = c
    \/ IsDigit(c)
    \/ c = "_"
IsSubChar(c) == c \notin {",", ";", "."}

\* the end of the run of [^,;.] characters that starts at position p
RECURSIVE SubRunEnd(_, _)
SubRunEnd(s, p) ==
    IF p <= Len(s) /\ IsSubChar(s[p]) THEN SubRunEnd(s, p + 1) ELSE p - 1

\* \s+for\s+(?P<orig>[^,;.]+) matched from position q: where orig lies.
\* The whitespace before "for" is the whole run; the whitespace after it is
\* the whole run too, unless nothing of [^,;.] follows: then orig is the last
\* whitespace character of a run of two or more.
SubPatternTail(s, q) ==
    LET c == SpaceRunEnd(s, q)
    IN  IF c < q \/ ~StartsWith(DropPrefix(s, c), <<"f", "o", "r">>) THEN None
        ELSE LET d == SpaceRunEnd(s, c + 4)
             IN  IF d < c + 4 THEN None
                 ELSE IF d + 1 <= Len(s) /\ IsSubChar(s[d + 1])
                 THEN Some([from |-> d + 1, to |-> SubRunEnd(s, d + 1)])
                 ELSE IF d - 1 >= c + 4 THEN Some([from |-> d, to |-> d])
                 ELSE None

\* sub_pattern matched at position p: the groups sub and orig, stripped,
\* and where the match ends.  The first \s+ is greedy (e1 as large as it
\* goes), the sub group lazy (e2 as small as it goes).
sub_pattern(s, p) ==
    IF ~(p = 1 \/ ~IsWordChar(s[p - 1])) THEN None
    ELSE IF ~StartsWith(DropPrefix(s, p - 1), <<"s", "u", "b">>) THEN None
    ELSE
    LET a == IF StartsWith(DropPrefix(s, p + 2), <<"s","t","i","t","u","t","e">>)
             THEN p + 10 ELSE p + 3
        w == SpaceRunEnd(s, a)
        ok == { e \in (a..w) \X ((a + 1)..Len(s)) :
                  /\ e[2] > e[1]
                  /\ \A i \in (e[1] + 1)..e[2] : IsSubChar(s[i])
                  /\ SubPatternTail(s, e[2] + 1) # None }
    IN  IF ok = {} THEN None
        ELSE LET e1 == CHOOSE x \in {e[1] : e \in ok} :
                           \A e \in ok : e[1] <= x
                 e2 == CHOOSE y \in {e[2] : e \in {f \in ok : f[1] = e1}} :
                           \A e \in ok : e[1] = e1 => y <= e[2]
                 t == SubPatternTail(s, e2 + 1)[1]
             IN  Some([ sub |-> Strip(SubSeq(s, e1 + 1, e2)),
                        orig |-> Strip(SubSeq(s, t.from, t.to)),
                        end |-> t.to ])

\* matches = list(re.finditer(sub_pattern, lower)), searched from position p
RECURSIVE matches(_, _)
matches(lower, p) ==
    IF p > Len(lower) THEN << >>
    ELSE LET m == sub_pattern(lower, p)
         IN  IF m = None THEN matches(lower, p + 1)
             ELSE <<m[1]>> \o matches(lower, m[1].end + 1)

\* subs_for_recipe after one match, the original compared with the
\* ingredient text as written instead of lower-cased
AppSubstituted_CaseSensitive(subs_for_recipe, recipe_ingredients, sub_name, orig_name) ==
    LET hit == { recipe_ingredients[i] : i \in
                   { j \in 1..Len(recipe_ingredients) :
                       Contains(Chars(recipe_ingredients[j]), orig_name) } }
    IN  [ x \in DOMAIN subs_for_recipe \cup hit |->
            IF x \in hit THEN sub_name ELSE subs_for_recipe[x] ]

\* subs_for_recipe after one match: for ing in recipe_ingredients:
\* if orig_name in ing.lower(): subs_for_recipe[ing] = sub_name
AppSubstituted(subs_for_recipe, recipe_ingredients, sub_name, orig_name) ==
    LET hit == { recipe_ingredients[i] : i \in
                   { j \in 1..Len(recipe_ingredients) :
                       Contains(LowerText(recipe_ingredients[j]), orig_name) } }
    IN  [ x \in DOMAIN subs_for_recipe \cup hit |->
            IF x \in hit THEN sub_name ELSE subs_for_recipe[x] ]

\* subs_for_recipe after the matches from the k-th on
RECURSIVE AppSubstitutedAll(_, _, _, _)
AppSubstitutedAll(subs_for_recipe, recipe_ingredients, found, k) ==
    IF k > Len(found) THEN subs_for_recipe
    ELSE AppSubstitutedAll(
             AppSubstituted(subs_for_recipe, recipe_ingredients,
                            found[k].sub, found[k].orig),
             recipe_ingredients, found, k + 1)

\* replacements taken as non-empty whenever the message has an occurrence
AppReplacements_AnyOccurrence(recipe_ingredients, found) ==
    Len(found) > 0

\* replacements: is there a match whose original is in some ingredient
AppReplacements(recipe_ingredients, found) ==
    \E k \in 1..Len(found), i \in 1..Len(recipe_ingredients) :
        Contains(LowerText(recipe_ingredients[i]), found[k].orig)

\* the updated ingredient list of the reply
AppIngredientLines(recipe_ingredients, recipe_subs, strikes_for_recipe) ==
    [ i \in 1..Len(recipe_ingredients) |->
        LET ing == recipe_ingredients[i]
            has_sub == ing \in DOMAIN recipe_subs /\ recipe_subs[ing] # << >>
            display == IF has_sub
                       THEN recipe_subs[ing] \o <<" (instead of ", ing, ")">>
                       ELSE <<ing>>
        IN  IF ing \in strikes_for_recipe
            THEN <<"- ~~">> \o display \o <<"~~">>
            ELSE <<"- ">> \o display ]

\* what app.py derives from the chat input alone
AppParse(user_input) ==
    LET lower == Strip(Lower(user_input))
    IN  [ reset |-> AnyPhraseIn(start_over_triggers, lower),
          found |-> matches(lower, 1) ]

\* the reset and substitution rules of the chat input: the session state
\* they leave and the assistant message
AppChatInput(parsed, state, recipe_ingredients) ==
    IF parsed.reset
    THEN [ handled |-> FALSE, reply_text |-> << >>, rerun |-> TRUE,
           state |-> CookingState(state.recipe_key) ]
    ELSE IF AppReplacements(recipe_ingredients, parsed.found)
    THEN LET subs == AppSubstitutedAll(state.ingredient_subs, recipe_ingredients,
                                       parsed.found, 1)
         IN  [ handled |-> TRUE,
               reply_text |-> JoinLines(
                   << <<"Got it. I will use those substitutions. Here is your updated ingredient list:">>,
                      << >> >>
                   \o AppIngredientLines(recipe_ingredients, subs,
                                         state.ingredient_strikes)),
               rerun |-> FALSE,
               state |-> [state EXCEPT !.ingredient_subs = subs] ]
    ELSE [ handled |-> TRUE,
           reply_text |-> JoinLines(
               << <<"I couldn't find that ingredient in this recipe.">>,
                  <<"Here are the ingredients I see:">>,
                  << >> >>
               \o [ i \in 1..Len(recipe_ingredients) |->
                      <<"- ", recipe_ingredients[i]>> ]),
           rerun |-> FALSE,
           state |-> state ]

-----------------------------------------------------------------------------
(* The k / x 5 / what scenario on the 7-step recipe, followed through the *)
(* requests of a session: 1 after "k" on a fresh garlic_pasta state, 2    *)
(* after "x 5" as the next request, 3 after "what" as the next, else 0    *)

ScenarioNext(position, state, message) ==
    IF message = "k" /\ state = CookingState("garlic_pasta") THEN 1
    ELSE IF position = 1 /\ message = "x 5" THEN 2
    ELSE IF position = 2 /\ message = "what" THEN 3
    ELSE 0

-----------------------------------------------------------------------------
(* api_server.py *)

\* the session ids uuid4 can return and that a request can name
SessionIds == {"s1", "s2"}

\* the recipe keys a start request can name
RequestKeys == RecipeKeys \cup {"no_such_recipe"}

\* Session(recipe_key); messages is the length of the message log, which the
\* server only appends to and measures
Session(recipe_key) ==
    [ cooking_state |-> CookingState(recipe_key), messages |-> 0 ]

\* What the call of call_agent_sous_chef at send_message can do: raise, or
\* return {"reply", "advance_step"}.  (As written the call passes no `client`
\* argument, which llm_agent.call_agent_sous_chef requires, so Python raises
\* TypeError; the returns are kept for a collaborator bound to a client.)
\* The reply returned is the model's text or, when the model's content is
\* empty and so not JSON, that empty content (llm_agent.py, `"reply": raw`).
FallbackReplies == { <<"(model reply)">>, << >> }
FallbackOutcomes ==
    { [kind |-> "raise", reply |-> <<"(exception text)">>, advance_step |-> FALSE] }
    \cup { [kind |-> "return", reply |-> r, advance_step |-> b] :
             r \in FallbackReplies, b \in BOOLEAN }

\* the fallback is not called when the engine handles the message
NoFallback == [kind |-> "none", reply |-> << >>, advance_step |-> FALSE]

NoRequest ==
    [ op |-> "none", session_id |-> "", message |-> "", status |-> 0,
      handled |-> FALSE, reply |-> << >>, pre |-> None, fallback |-> "none",
      advance_step |-> FALSE, recipe_key |-> "", listing |-> {} ]

\* a store in which the sessions of one recipe share one Session object
Put_SharedByRecipe(f, k, v) ==
    [x \in DOMAIN f \cup {k} |->
        IF x = k THEN v
        ELSE IF f[x].cooking_state.recipe_key = v.cooking_state.recipe_key
        THEN v ELSE f[x]]

\* SESSIONS[k] = v
Put(f, k, v) == [x \in DOMAIN f \cup {k} |-> IF x = k THEN v ELSE f[x]]

\* a delete that empties the store
Remove_Everything(f, k) == << >>

\* del SESSIONS[k]
Remove(f, k) == [x \in DOMAIN f \ {k} |-> f[x]]

\* GET /sessions: one entry for each session in the store
list_sessions_entries(sessions) ==
    { [ session_id |-> sid,
        recipe_name |-> RECIPE_LIBRARY(sessions[sid].cooking_state.recipe_key).name,
        current_step |-> sessions[sid].cooking_state.current_step ] :
      sid \in DOMAIN sessions }

\* POST /session/start
start_session(recipe_key, session_id) ==
    /\ session_id \notin DOMAIN SESSIONS
    /\ IF recipe_key \notin RecipeKeys
       THEN /\ last' = [NoRequest EXCEPT !.op = "start_session", !.status = 404,
                                         !.recipe_key = recipe_key]
            /\ UNCHANGED SESSIONS
       ELSE LET reply == <<"Let's cook ", RECIPE_LIBRARY(recipe_key).name,
                           "! Ask for 'ingredients', 'steps', or say 'next' to begin.">>
            IN  /\ SESSIONS' = Put(SESSIONS, session_id,
                                   [Session(recipe_key) EXCEPT !.messages = 1])
                /\ last' = [NoRequest EXCEPT !.op = "start_session",
                                             !.session_id = session_id,
                                             !.recipe_key = recipe_key,
                                             !.status = 200, !.reply = reply]
    /\ UNCHANGED <<eng, out, pick, calls>>

\* a request can carry the empty message
BlankInputs == {""}

\* req.message.strip(), computed once for each message
Stripped == [m \in Inputs \cup HugeInputs \cup BlankInputs |-> Strip(InputChars(m))]

\* send_message with the fallback's advance applied without looking at the
\* number of steps
SendMessageState_PastTheEnd(state, result, fb, steps) ==
    IF result.handled
    THEN IF result.new_state # None THEN result.new_state[1] ELSE state
    ELSE IF fb.kind = "return" /\ fb.advance_step
         THEN [state EXCEPT !.current_step = state.current_step + 1]
         ELSE state

\* the Cooking State send_message leaves in the session
SendMessageState(state, result, fb, steps) ==
    IF result.handled
    THEN IF result.new_state # None THEN result.new_state[1] ELSE state
    ELSE IF fb.kind = "return" /\ fb.advance_step /\ state.current_step < Len(steps)
         THEN [state EXCEPT !.current_step = state.current_step + 1]
         ELSE state

\* the reply send_message returns
SendMessageReply(result, fb) ==
    IF result.handled THEN result.reply
    ELSE IF fb.kind = "return" THEN fb.reply
    ELSE <<"Error: ">> \o fb.reply

\* the turns a session has taken: its log holds the greeting and two
\* entries for each turn
Turns(session) == (session.messages - 1) \div 2

\* send_message from the call of the command engine on: result is what
\* handle_command returned
Respond(session_id, message, session, recipe, result) ==
    IF result.raised # ""
    THEN \* the exception leaves send_message and the server answers 500;
         \* the user message is in the session's log by then
         /\ SESSIONS' = Put(SESSIONS, session_id,
               [session EXCEPT !.messages = session.messages + 1])
         /\ last' = [NoRequest EXCEPT !.op = "send_message",
                                      !.session_id = session_id,
                                      !.message = message,
                                      !.status = 500,
                                      !.pre = Some(session.cooking_state)]
         /\ scen' = 0
    ELSE
    \E fb \in IF result.handled THEN {NoFallback} ELSE FallbackOutcomes :
        /\ SESSIONS' = Put(SESSIONS, session_id,
              [ cooking_state |->
                  SendMessageState(session.cooking_state, result, fb, recipe.steps),
                messages |-> session.messages + 2 ])
        /\ last' = [ op |-> "send_message",
                     session_id |-> session_id,
                     message |-> message,
                     status |-> 200,
                     handled |-> result.handled,
                     reply |-> SendMessageReply(result, fb),
                     pre |-> Some(session.cooking_state),
                     fallback |-> fb.kind,
                     advance_step |-> fb.advance_step,
                     recipe_key |-> "",
                     listing |-> {} ]
        /\ scen' = ScenarioNext(scen, session.cooking_state, message)

\* send_message with the user message logged before the request is
\* validated
Converse_LogFirst(session_id, message, session, recipe) ==
    /\ Turns(session) < MaxTurns
    /\ IF Stripped[message] = << >>
       THEN /\ last' = [NoRequest EXCEPT !.op = "send_message",
                                         !.session_id = session_id,
                                         !.message = message,
                                         !.status = 400,
                                         !.pre = Some(session.cooking_state)]
            /\ scen' = 0
            /\ SESSIONS' = Put(SESSIONS, session_id,
                               [session EXCEPT !.messages = session.messages + 1])
       ELSE Respond(session_id, message, session, recipe,
                    handle_command(Stripped[message], session.cooking_state,
                                   recipe.name, recipe.ingredients, recipe.steps))

\* send_message once the session and its recipe are found
Converse(session_id, message, session, recipe) ==
    /\ Turns(session) < MaxTurns
    /\ IF Stripped[message] = << >>
       THEN /\ last' = [NoRequest EXCEPT !.op = "send_message",
                                         !.session_id = session_id,
                                         !.message = message,
                                         !.status = 400,
                                         !.pre = Some(session.cooking_state)]
            /\ scen' = 0
            /\ UNCHANGED SESSIONS
       ELSE Respond(session_id, message, session, recipe,
                    handle_command(Stripped[message], session.cooking_state,
                                   recipe.name, recipe.ingredients, recipe.steps))

\* POST /session/{session_id}/message
send_message(session_id, message) ==
    /\ IF session_id \notin DOMAIN SESSIONS
       THEN /\ last' = [NoRequest EXCEPT !.op = "send_message",
                                         !.session_id = session_id,
                                         !.message = message, !.status = 404]
            /\ scen' = 0
            /\ UNCHANGED SESSIONS
       ELSE Converse(session_id, message, SESSIONS[session_id],
                     RECIPE_LIBRARY(SESSIONS[session_id].cooking_state.recipe_key))
    /\ UNCHANGED <<eng, out, pick, calls>>

\* GET /session/{session_id}
get_session_info(session_id) ==
    /\ IF session_id \notin DOMAIN SESSIONS
       THEN last' = [NoRequest EXCEPT !.op = "get_session_info",
                                      !.session_id = session_id, !.status = 404]
       ELSE last' = [NoRequest EXCEPT !.op = "get_session_info",
                                      !.session_id = session_id, !.status = 200,
                                      !.pre = Some(SESSIONS[session_id].cooking_state)]
    /\ UNCHANGED <<SESSIONS, eng, out, pick, calls>>

\* DELETE /session/{session_id}
delete_session(session_id) ==
    /\ IF session_id \notin DOMAIN SESSIONS
       THEN /\ last' = [NoRequest EXCEPT !.op = "delete_session",
                                         !.session_id = session_id, !.status = 404]
            /\ UNCHANGED SESSIONS
       ELSE /\ SESSIONS' = Remove(SESSIONS, session_id)
            /\ last' = [NoRequest EXCEPT !.op = "delete_session",
                                         !.session_id = session_id, !.status = 200,
                                         !.reply = <<"Session deleted">>]
    /\ UNCHANGED <<eng, out, pick, calls>>

-----------------------------------------------------------------------------
(* llm_agent.py: call_agent_sous_chef from the model's response on *)

\* what the client call can do: raise, or return a completion whose
\* message content is one of these texts
ModelResponses ==
    { "{\"reply\": \"Stir gently.\", \"advance_step\": true}",
      "{\"reply\": \"Stir gently.\"}",
      "{\"advance_step\": true}",
      "{\"reply\": \"\", \"advance_step\": false}",
      "{\"reply\": \"  \"}",
      "Stir gently.", "", "  ", "\"Stir gently.\"",
      "{\"reply\": null, \"advance_step\": \"false\"}",
      "{\"reply\": \"a\",}", "{ }" }
ClientOutcomes ==
    { [kind |-> "raise", content |-> ""] }
    \cup { [kind |-> "content", content |-> r] : r \in ModelResponses }

\* the first position at or after p that holds no JSON whitespace
SkipWs(s, p) == SpaceRunEnd(s, p) + 1

\* A JSON value as call_agent_sous_chef uses it: text is str(value), truth
\* is bool(value)
JsonValue(text, truth) == [text |-> text, truth |-> truth]

\* json.loads of a string literal at position p (the texts have no escapes)
JsonString(s, p) ==
    LET ends == {q \in (p + 1)..Len(s) : s[q] = "\""}
    IN  IF ends = {} THEN None
        ELSE LET q == CHOOSE x \in ends : \A y \in ends : x <= y
             IN  IF \E i \in (p + 1)..(q - 1) : s[i] \in {"\n", "\t", "\r", "\\"}
                 THEN None
                 ELSE Some([ value |-> JsonValue(SubSeq(s, p + 1, q - 1), q > p + 1),
                             next |-> q + 1 ])

\* json.loads of a string, true, false, null or a run of digits at position p
JsonScalar(s, p) ==
    IF p > Len(s) THEN None
    ELSE IF s[p] = "\"" THEN JsonString(s, p)
    ELSE IF StartsWith(DropPrefix(s, p - 1), <<"t","r","u","e">>)
    THEN Some([value |-> JsonValue(Chars("True"), TRUE), next |-> p + 4])
    ELSE IF StartsWith(DropPrefix(s, p - 1), <<"f","a","l","s","e">>)
    THEN Some([value |-> JsonValue(Chars("False"), FALSE), next |-> p + 5])
    ELSE IF StartsWith(DropPrefix(s, p - 1), <<"n","u","l","l">>)
    THEN Some([value |-> JsonValue(Chars("None"), FALSE), next |-> p + 4])
    ELSE IF IsDigit(s[p])
    THEN Some([ value |-> JsonValue(SubSeq(s, p, DigitRunEnd(s, p)),
                                    ToInt(SubSeq(s, p, DigitRunEnd(s, p))) # 0),
                next |-> DigitRunEnd(s, p) + 1 ])
    ELSE None

\* the members of an object from position p on, added to acc; a repeated
\* key keeps its last value
RECURSIVE JsonMembers(_, _, _)
JsonMembers(s, p, acc) ==
    IF p > Len(s) \/ s[p] # "\"" THEN None
    ELSE LET k == JsonString(s, p)
         IN  IF k = None THEN None
             ELSE LET c == SkipWs(s, k[1].next)
                  IN  IF c > Len(s) \/ s[c] # ":" THEN None
                      ELSE LET v == JsonScalar(s, SkipWs(s, c + 1))
                           IN  IF v = None THEN None
                               ELSE LET e == SkipWs(s, v[1].next)
                                        more == Put(acc, k[1].value.text, v[1].value)
                                    IN  IF e > Len(s) THEN None
                                        ELSE IF s[e] = "}"
                                        THEN Some([dict |-> more, next |-> e + 1])
                                        ELSE IF s[e] = ","
                                        THEN JsonMembers(s, SkipWs(s, e + 1), more)
                                        ELSE None

\* json.loads(raw): a dict, another JSON value, or JSONDecodeError
json_loads(raw) ==
    LET p == SkipWs(raw, 1)
        object == IF p + 1 <= Len(raw) /\ raw[SkipWs(raw, p + 1)] = "}"
                  THEN Some([dict |-> << >>, next |-> SkipWs(raw, p + 1) + 1])
                  ELSE JsonMembers(raw, SkipWs(raw, p + 1), << >>)
    IN  IF p > Len(raw) THEN [kind |-> "error", dict |-> << >>]
        ELSE IF raw[p] = "{"
        THEN IF object # None /\ SkipWs(raw, object[1].next) > Len(raw)
             THEN [kind |-> "dict", dict |-> object[1].dict]
             ELSE [kind |-> "error", dict |-> << >>]
        ELSE IF JsonScalar(raw, p) # None
                /\ SkipWs(raw, JsonScalar(raw, p)[1].next) > Len(raw)
        THEN [kind |-> "other", dict |-> << >>]
        ELSE [kind |-> "error", dict |-> << >>]

\* data.get(key, default), as the JSON value it yields
DictGet(dict, key, default) ==
    IF Chars(key) \in DOMAIN dict THEN dict[Chars(key)] ELSE default

advance_triggers ==
    { Chars("done"), Chars("finished"), Chars("next"), Chars("next step"),
      Chars("whats next"), Chars("what is next"), Chars("ok"), Chars("okay"),
      Chars("k"), Chars("kk") }

\* ch.isalnum() or ch.isspace()
IsCleanChar(ch) ==
    \/ \E i \in 1..26 : UpperAZ[i] = ch \/ LowerAZ[i] = ch
    \/ IsDigit(ch)
    \/ IsSpace(ch)

\* the dict call_agent_sous_chef returns, given raw and data = json.loads(raw)
AgentReturn(user_input, raw, data) ==
    IF data.kind = "dict"
    THEN LET reply == Strip(DictGet(data.dict, "reply", JsonValue(<< >>, FALSE)).text)
         IN  [ reply |-> IF reply = << >>
                         THEN <<"I had trouble generating a reply. Please tell me again what you did.">>
                         ELSE reply,
               advance_step |->
                   DictGet(data.dict, "advance_step", JsonValue(<< >>, FALSE)).truth,
               raw |-> raw, raised |-> "" ]
    ELSE LET clean == SelectSeq(Lower(user_input), IsCleanChar)
         IN  [ reply |-> raw,
               advance_step |-> \E trigger \in advance_triggers :
                                    trigger = clean \/ Contains(clean, trigger),
               raw |-> raw, raised |-> "" ]

\* call_agent_sous_chef(client, user_input, ...) when the client call does
\* outcome: an exception of the client leaves the function
call_agent_sous_chef(user_input, outcome) ==
    IF outcome.kind = "raise"
    THEN [ reply |-> << >>, advance_step |-> FALSE, raw |-> << >>,
           raised |-> "client exception" ]
    ELSE AgentReturn(user_input, Strip(Chars(outcome.content)),
                     json_loads(Strip(Chars(outcome.content))))

-----------------------------------------------------------------------------
(* A direct caller of the engines: it holds a Cooking State, calls an     *)
(* engine once with a message and applies what the engine returns         *)

NoCall ==
    [ fn |-> "none", input |-> "", pre |-> None, pre_pick |-> None,
      handled |-> FALSE, reply |-> << >>, advance_step |-> FALSE,
      rerun |-> FALSE, new_state |-> None, session_update |-> None,
      raised |-> "", fallback |-> "none" ]

\* the characters of each message, computed once
CharsOf == [m \in Inputs \cup HugeInputs |-> InputChars(m)]
PickCharsOf == [m \in Inputs \cup PickInputs |-> Chars(m)]

\* the caller's step after handle_command returned result:
\* if result.new_state: state = result.new_state
CoreCalled(m, result) ==
    /\ eng' = IF result.new_state # None THEN result.new_state[1] ELSE eng
    /\ out' = [ fn |-> "handle_command", input |-> m, pre |-> Some(eng),
                pre_pick |-> Some(pick),
                handled |-> result.handled, reply |-> result.reply,
                advance_step |-> result.advance_step, rerun |-> FALSE,
                new_state |-> result.new_state,
                session_update |-> None,
                raised |-> result.raised, fallback |-> "none" ]

CallCore(m, recipe) ==
    /\ out.fn = "none"
    /\ CoreCalled(m, handle_command(CharsOf[m], eng, recipe.name,
                                    recipe.ingredients, recipe.steps))
    /\ UNCHANGED <<SESSIONS, last, scen, pick, calls>>

\* the caller's step after handle_user_command_headless returned result:
\* the session_update is applied
HeadlessCalled(m, result) ==
    /\ eng' = ApplySessionUpdate(eng, result.session_update)
    /\ out' = [ fn |-> "handle_user_command_headless", input |-> m,
                pre |-> Some(eng), pre_pick |-> Some(pick),
                handled |-> result.handled, reply |-> result.reply_text,
                advance_step |-> result.advance_step, rerun |-> FALSE,
                new_state |-> None,
                session_update |-> result.session_update,
                raised |-> "", fallback |-> "none" ]

CallHeadless(m, recipe) ==
    /\ out.fn = "none"
    /\ HeadlessCalled(m, handle_user_command_headless(
                             CharsOf[m], recipe.name, recipe.description,
                             recipe.steps, recipe.ingredients, eng.ingredient_subs,
                             eng.ingredient_strikes, eng.current_step))
    /\ UNCHANGED <<SESSIONS, last, scen, pick, calls>>

\* the caller's step after handle_user_command: st.session_state is as the
\* call left it
StreamlitCalled(m, result) ==
    /\ eng' = result.state
    /\ pick' = result.pick
    /\ out' = [ fn |-> "handle_user_command", input |-> m,
                pre |-> Some(eng), pre_pick |-> Some(pick),
                handled |-> result.handled, reply |-> result.reply_text,
                advance_step |-> result.advance_step, rerun |-> result.rerun,
                new_state |-> None, session_update |-> None,
                raised |-> result.raised, fallback |-> "none" ]

CallStreamlit(m, recipe) ==
    /\ out.fn = "none"
    /\ StreamlitCalled(m, handle_user_command(
                              PickCharsOf[m], recipe.name, recipe.description,
                              recipe.steps, recipe.ingredients, eng.ingredient_subs,
                              eng, pick))
    /\ UNCHANGED <<SESSIONS, last, scen, calls>>

\* ui/streamlit_app.py, the chat input from the fallback on: reply_text and
\* advance_step are the fallback's, or the error text and False when it raised
ChatFallback(fb) ==
    IF fb.kind = "return"
    THEN [reply_text |-> fb.reply, advance_step |-> fb.advance_step]
    ELSE [reply_text |-> <<"Error calling the AI model: ">> \o fb.reply,
          advance_step |-> FALSE]

\* the session state the page is left with: the engine's, one step further
\* when advance_step is set and the last step is not passed
ChatState(state, advance_step, recipe_steps) ==
    IF advance_step /\ state.current_step < Len(recipe_steps)
    THEN [state EXCEPT !.current_step = state.current_step + 1]
    ELSE state

\* ui/streamlit_app.py, the chat input after handle_user_command returned
\* result; st.rerun() inside the engine, or an exception of the engine,
\* ends the script run there
ChatInputCalled(m, recipe, result) ==
    \E fb \in IF result.handled \/ result.rerun \/ result.raised # "" THEN {NoFallback} ELSE FallbackOutcomes :
        LET answer == IF result.handled \/ result.rerun \/ result.raised # ""
                      THEN [reply_text |-> result.reply_text,
                            advance_step |-> result.advance_step]
                      ELSE ChatFallback(fb)
        IN  /\ eng' = IF result.rerun THEN result.state
                      ELSE ChatState(result.state, answer.advance_step, recipe.steps)
            /\ pick' = result.pick
            /\ out' = [ fn |-> "chat_input", input |-> m,
                        pre |-> Some(eng), pre_pick |-> Some(pick),
                        handled |-> result.handled, reply |-> answer.reply_text,
                        advance_step |-> answer.advance_step, rerun |-> result.rerun,
                        new_state |-> None, session_update |-> None,
                        raised |-> result.raised, fallback |-> fb.kind ]

CallChatInput(m, recipe) ==
    /\ out.fn = "none"
    /\ ChatInputCalled(m, recipe, handle_user_command(
                              PickCharsOf[m], recipe.name, recipe.description,
                              recipe.steps, recipe.ingredients, eng.ingredient_subs,
                              eng, pick))
    /\ UNCHANGED <<SESSIONS, last, scen, calls>>

\* the recipe search states of the Streamlit app
PickChoices ==
    { PickState(FALSE, << >>), PickState(TRUE, << >>),
      PickState(TRUE, <<"scrambled_eggs">>),
      PickState(TRUE, get_recipe_keys_and_labels) }

\* the substitution maps the caller holds: none, one, two
SubsChoices(key) ==
    LET ings == RECIPE_LIBRARY(key).ingredients
    IN  { << >>,
          [x \in {ings[Len(ings)]} |-> "almond milk"],
          [x \in {ings[1], ings[Len(ings)]} |->
              IF x = ings[1] THEN "Olive Oil" ELSE "almond milk"] }

\* the strike sets the caller holds
StrikeChoices(key) ==
    LET ings == RECIPE_LIBRARY(key).ingredients
    IN  { {}, {ings[1]}, {ings[2], ings[3]}, Range(ings) }

InitEngine ==
    /\ SESSIONS = << >>
    /\ last = NoRequest
    /\ scen = 0
    /\ out = NoCall
    /\ calls = << >>
    /\ pick \in PickChoices
    /\ \E key \in RecipeKeys :
         \E step \in 0..Len(RECIPE_LIBRARY(key).steps),
            subs \in SubsChoices(key), strikes \in StrikeChoices(key) :
            eng = [ recipe_key |-> key, current_step |-> step,
                    ingredient_subs |-> subs, ingredient_strikes |-> strikes ]

HandleCommand == \E m \in Inputs : CallCore(m, RECIPE_LIBRARY(eng.recipe_key))

HandleUserCommandHeadless ==
    \E m \in Inputs : CallHeadless(m, RECIPE_LIBRARY(eng.recipe_key))

HandleUserCommand ==
    \E m \in Inputs \cup PickInputs : CallStreamlit(m, RECIPE_LIBRARY(eng.recipe_key))

ChatInput ==
    \E m \in Inputs \cup PickInputs : CallChatInput(m, RECIPE_LIBRARY(eng.recipe_key))

NextEngine ==
    HandleCommand \/ HandleUserCommandHeadless \/ HandleUserCommand \/ ChatInput

SpecEngine == InitEngine /\ [][NextEngine]_vars

-----------------------------------------------------------------------------
(* handle_command called once with any recipe: the recipe of the state, *)
(* or that recipe without its steps, without its ingredients or without *)
(* both, and with any message                                           *)

\* the recipes a caller passes with a state
RecipeArguments(state) ==
    LET recipe == RECIPE_LIBRARY(state.recipe_key)
    IN  { recipe,
          [recipe EXCEPT !.ingredients = << >>] }
        \cup ( IF state.current_step = 0
               THEN { [recipe EXCEPT !.steps = << >>],
                      [recipe EXCEPT !.steps = << >>, !.ingredients = << >>] }
               ELSE { } )

HandleCommandAnyRecipe ==
    \E m \in Inputs \cup HugeInputs, recipe \in RecipeArguments(eng) :
        CallCore(m, recipe)

NextTotal == HandleCommandAnyRecipe

SpecTotal == InitEngine /\ [][NextTotal]_vars

-----------------------------------------------------------------------------
(* A caller that keeps calling one engine: it starts on a fresh recipe,    *)
(* gives the engine one message after another and applies what each call   *)
(* returns.  calls is the record of every call, in order.                  *)

\* what is typed to the Streamlit app by the caller
StreamlitCallerInputs == {"pick", "eggs", "pasta", "soup", "s", "1", "2", "exit"}

InitCaller ==
    /\ SESSIONS = << >>
    /\ last = NoRequest
    /\ scen = 0
    /\ out = NoCall
    /\ calls = << >>
    /\ pick = PickState(FALSE, << >>)
    /\ \E key \in RecipeKeys : eng = CookingState(key)

\* the caller stays with the engine of its first call
CallerOf(fn) == IF calls = << >> THEN TRUE ELSE calls[1].fn = fn

\* handle_user_command called again: st.session_state is as the call left it
CallStreamlitAgain(m, result) ==
    /\ eng' = result.state
    /\ pick' = result.pick
    /\ out' = [ fn |-> "handle_user_command", input |-> m,
                pre |-> Some(eng), pre_pick |-> Some(pick),
                handled |-> result.handled, reply |-> result.reply_text,
                advance_step |-> result.advance_step, rerun |-> result.rerun,
                new_state |-> None, session_update |-> None,
                raised |-> result.raised, fallback |-> "none" ]
    /\ calls' = Append(calls, out')
    /\ UNCHANGED <<SESSIONS, last, scen>>

KeepCallingStreamlit ==
    /\ Len(calls) < MaxCalls
    /\ CallerOf("handle_user_command")
    /\ \E m \in StreamlitCallerInputs :
          CallStreamlitAgain(m, handle_user_command(
              PickCharsOf[m], RECIPE_LIBRARY(eng.recipe_key).name,
              RECIPE_LIBRARY(eng.recipe_key).description,
              RECIPE_LIBRARY(eng.recipe_key).steps,
              RECIPE_LIBRARY(eng.recipe_key).ingredients,
              eng.ingredient_subs, eng, pick))

\* what the caller of the core engine sends
CoreCallerInputs == {"i", "s", "what", "1", "k", "x 3", "x 0", "x salt"}

\* handle_command called again: if result.new_state: state = result.new_state
CallCoreAgain(m, result) ==
    /\ eng' = IF result.new_state # None THEN result.new_state[1] ELSE eng
    /\ out' = [ fn |-> "handle_command", input |-> m, pre |-> Some(eng),
                pre_pick |-> Some(pick),
                handled |-> result.handled, reply |-> result.reply,
                advance_step |-> result.advance_step, rerun |-> FALSE,
                new_state |-> result.new_state,
                session_update |-> None,
                raised |-> result.raised, fallback |-> "none" ]
    /\ calls' = Append(calls, out')
    /\ UNCHANGED <<SESSIONS, last, scen, pick>>

KeepCallingCore ==
    /\ Len(calls) < MaxCalls
    /\ CallerOf("handle_command")
    /\ \E m \in CoreCallerInputs :
          CallCoreAgain(m, handle_command(
              CharsOf[m], eng, RECIPE_LIBRARY(eng.recipe_key).name,
              RECIPE_LIBRARY(eng.recipe_key).ingredients,
              RECIPE_LIBRARY(eng.recipe_key).steps))

\* substitution messages typed into the chat input of app.py
AppInputs ==
    { "sub olive oil for butter", "Sub Ghee for Butter",
      "substitute white pepper for black pepper",
      "sub oil for butter and sub white pepper for black pepper",
      "sub ghee for butter, sub tofu for salt", "sub   for oil",
      "sub x for  , thanks", "sub clear broth for water" }

\* what app.py derives from each message, computed once
AppParsed == [m \in AppInputs |-> AppParse(Chars(m))]

\* a chat input handled by app.py: st.session_state is as the run left it
AppCalled(m, result) ==
    /\ eng' = result.state
    /\ out' = [ fn |-> "app.py chat input", input |-> m,
                pre |-> Some(eng), pre_pick |-> Some(pick),
                handled |-> result.handled, reply |-> result.reply_text,
                advance_step |-> FALSE, rerun |-> result.rerun,
                new_state |-> None, session_update |-> None,
                raised |-> "", fallback |-> "none" ]
    /\ calls' = Append(calls, out')
    /\ UNCHANGED <<SESSIONS, last, scen, pick>>

KeepSubstituting ==
    /\ Len(calls) < MaxCalls
    /\ CallerOf("app.py chat input")
    /\ \E m \in AppInputs :
          AppCalled(m, AppChatInput(AppParsed[m], eng,
                                    RECIPE_LIBRARY(eng.recipe_key).ingredients))

\* what the caller of the headless engine sends
HeadlessCallerInputs ==
    { "x salt", "uncross salt", "x pasta", "restore pasta", "x eggs",
      "unstrike eggs", "x zzz", "k" }

\* handle_user_command_headless called again: the session_update is applied
CallHeadlessAgain(m, result) ==
    /\ eng' = ApplySessionUpdate(eng, result.session_update)
    /\ out' = [ fn |-> "handle_user_command_headless", input |-> m,
                pre |-> Some(eng), pre_pick |-> Some(pick),
                handled |-> result.handled, reply |-> result.reply_text,
                advance_step |-> result.advance_step, rerun |-> FALSE,
                new_state |-> None,
                session_update |-> result.session_update,
                raised |-> "", fallback |-> "none" ]
    /\ calls' = Append(calls, out')
    /\ UNCHANGED <<SESSIONS, last, scen, pick>>

KeepCallingHeadless ==
    /\ Len(calls) < MaxCalls
    /\ CallerOf("handle_user_command_headless")
    /\ \E m \in HeadlessCallerInputs :
          CallHeadlessAgain(m, handle_user_command_headless(
              CharsOf[m], RECIPE_LIBRARY(eng.recipe_key).name,
              RECIPE_LIBRARY(eng.recipe_key).description,
              RECIPE_LIBRARY(eng.recipe_key).steps,
              RECIPE_LIBRARY(eng.recipe_key).ingredients,
              eng.ingredient_subs, eng.ingredient_strikes, eng.current_step))

NextCaller ==
    KeepCallingStreamlit \/ KeepSubstituting \/ KeepCallingCore \/ KeepCallingHeadless

SpecCaller == InitCaller /\ [][NextCaller]_vars

-----------------------------------------------------------------------------
(* A session of one engine: the caller starts on a fresh recipe, with the  *)
(* substitutions it holds, and applies what each call returns before the   *)
(* next call.  out is the last call; no record of earlier calls is kept.   *)

InitSession ==
    /\ SESSIONS = << >>
    /\ last = NoRequest
    /\ scen = 0
    /\ out = NoCall
    /\ calls = << >>
    /\ pick = PickState(FALSE, << >>)
    /\ \E key \in RecipeKeys : \E subs \in SubsChoices(key) :
          eng = [CookingState(key) EXCEPT !.ingredient_subs = subs]

\* what the caller sends in a session
SessionInputs ==
    { "k", "ok", "okay", "done", " next ", "x 0", "x 3", "x 999",
      "x eggs", "86 EGGS", "x salt", "x pasta", "x oil", "x zzz", "x almond",
      "86 ", "unstrike eggs", "restore pasta", "uncross salt",
      "clear", "please restart now", "i", "s", "what", "1", "9", "hmm" }

\* the session stays with the engine of its first call
SessionOf(fn) == out.fn \in {"none", fn}

\* the number of "k" commands sent in a row since current_step was 0, the
\* command m that is sent now included; 0 when m ends or starts no such run
KRun(run, state, m) ==
    IF m # "k" THEN 0
    ELSE IF state.current_step = 0 THEN 1
    ELSE IF run > 0 THEN run + 1
    ELSE 0

SessionCore ==
    /\ SessionOf("handle_command")
    /\ \E m \in SessionInputs :
          /\ scen < MaxRun
          /\ scen' = KRun(scen, eng, m)
          /\ CoreCalled(m, handle_command(
                 CharsOf[m], eng, RECIPE_LIBRARY(eng.recipe_key).name,
                 RECIPE_LIBRARY(eng.recipe_key).ingredients,
                 RECIPE_LIBRARY(eng.recipe_key).steps))
    /\ UNCHANGED <<SESSIONS, last, pick, calls>>

SessionHeadless ==
    /\ SessionOf("handle_user_command_headless")
    /\ \E m \in SessionInputs :
          /\ scen < MaxRun
          /\ scen' = KRun(scen, eng, m)
          /\ HeadlessCalled(m, handle_user_command_headless(
                 CharsOf[m], RECIPE_LIBRARY(eng.recipe_key).name,
                 RECIPE_LIBRARY(eng.recipe_key).description,
                 RECIPE_LIBRARY(eng.recipe_key).steps,
                 RECIPE_LIBRARY(eng.recipe_key).ingredients,
                 eng.ingredient_subs, eng.ingredient_strikes, eng.current_step))
    /\ UNCHANGED <<SESSIONS, last, pick, calls>>

NextSession == SessionCore \/ SessionHeadless

SpecSession == InitSession /\ [][NextSession]_vars

-----------------------------------------------------------------------------
(* The renderers called on their own: eng holds the arguments of one call  *)
(* (a steps list with a current_step, an ingredients list with a           *)
(* substitution map and a strike set), out the name of the renderer and    *)
(* what it returned.                                                       *)

\* the substitution maps over an ingredients list: none, one, two, and one
\* whose substitute name is the empty string
RenderSubsChoices(ings) ==
    IF Len(ings) = 0 THEN { << >> }
    ELSE { << >>,
           [x \in {ings[Len(ings)]} |-> "almond milk"],
           [x \in {ings[1], ings[Len(ings)]} |->
               IF x = ings[1] THEN "Olive Oil" ELSE "almond milk"],
           [x \in {ings[1]} |-> ""] }

\* the strike sets over an ingredients list
RenderStrikeChoices(ings) ==
    IF Len(ings) = 0 THEN { {} }
    ELSE { {}, {ings[1]}, Range(ings) }

InitRender ==
    /\ SESSIONS = << >>
    /\ last = NoRequest
    /\ scen = 0
    /\ out = NoCall
    /\ calls = << >>
    /\ pick = PickState(FALSE, << >>)
    /\ \E key \in RecipeKeys :
         \E ns \in 0..Len(RECIPE_LIBRARY(key).steps),
            ni \in 0..Len(RECIPE_LIBRARY(key).ingredients) :
            \E current_step \in 0..ns,
               subs \in RenderSubsChoices(SubSeq(RECIPE_LIBRARY(key).ingredients, 1, ni)),
               strikes \in RenderStrikeChoices(SubSeq(RECIPE_LIBRARY(key).ingredients, 1, ni)) :
               eng = [ steps |-> SubSeq(RECIPE_LIBRARY(key).steps, 1, ns),
                       current_step |-> current_step,
                       ingredients |-> SubSeq(RECIPE_LIBRARY(key).ingredients, 1, ni),
                       ingredient_subs |-> subs,
                       ingredient_strikes |-> strikes ]

\* a renderer returned result
Rendered(fn, result) ==
    /\ out.fn = "none"
    /\ out' = [NoCall EXCEPT !.fn = fn, !.pre = Some(eng), !.reply = result]
    /\ UNCHANGED <<SESSIONS, last, eng, scen, pick, calls>>

FormatStepsList ==
    Rendered("format_steps_list",
             format_steps_list(eng.steps, eng.current_step))

FormatStepsWithProgressMarkdown ==
    Rendered("format_steps_with_progress_markdown",
             format_steps_with_progress_markdown(eng.steps, eng.current_step))

FormatIngredientList ==
    Rendered("format_ingredient_list",
             format_ingredient_list(eng.ingredients, eng.ingredient_subs,
                                    eng.ingredient_strikes))

FormatWorkingIngredientsMarkdown ==
    Rendered("format_working_ingredients_markdown",
             format_working_ingredients_markdown(
                 eng.ingredients, eng.ingredient_subs, eng.ingredient_strikes))

NextRender ==
    \/ FormatStepsList
    \/ FormatStepsWithProgressMarkdown
    \/ FormatIngredientList
    \/ FormatWorkingIngredientsMarkdown

SpecRender == InitRender /\ [][NextRender]_vars

-----------------------------------------------------------------------------
(* call_agent_sous_chef called once with a message and a client whose call *)
(* has one of the outcomes; out.pre holds the outcome                      *)

AgentInputs == ConfirmInputs \cup FreeInputs

InitAgent ==
    /\ SESSIONS = << >>
    /\ last = NoRequest
    /\ scen = 0
    /\ out = NoCall
    /\ calls = << >>
    /\ pick = PickState(FALSE, << >>)
    /\ eng = CookingState("garlic_pasta")

AgentCalled(m, outcome, result) ==
    /\ out.fn = "none"
    /\ out' = [NoCall EXCEPT !.fn = "call_agent_sous_chef", !.input = m,
                             !.pre = Some(outcome), !.reply = result.reply,
                             !.advance_step = result.advance_step,
                             !.raised = result.raised]
    /\ UNCHANGED <<SESSIONS, last, eng, scen, pick, calls>>

CallAgentSousChef ==
    \E m \in AgentInputs, outcome \in ClientOutcomes :
        AgentCalled(m, outcome, call_agent_sous_chef(Chars(m), outcome))

NextAgent == CallAgentSousChef

SpecAgent == InitAgent /\ [][NextAgent]_vars

-----------------------------------------------------------------------------
(* handle_command on objects.  eng is the caller's memory: heap is the     *)
(* sequence of the objects there are (CookingState instances, dicts and    *)
(* sets), an object's id its position; a CookingState instance holds the   *)
(* ids of its ingredient_subs dict and its ingredient_strikes set.         *)
(* eng.state is the id of the state passed to handle_command,              *)
(* eng.new_state that of the state it returned, eng.changed which of the   *)
(* two the caller changed in place afterwards.                             *)

\* the value of the CookingState instance id: its fields, the dict and the
\* set read through their ids
Deref(heap, id) ==
    [ recipe_key |-> heap[id].recipe_key,
      current_step |-> heap[id].current_step,
      ingredient_subs |-> heap[heap[id].ingredient_subs],
      ingredient_strikes |-> heap[heap[id].ingredient_strikes] ]

\* the same object passed on instead of a copy
Copy_Alias(heap, id) == [heap |-> heap, ref |-> id]

\* x.copy(): a new object with the contents of the dict or set id
Copy(heap, id) == [heap |-> Append(heap, heap[id]), ref |-> Len(heap) + 1]

\* the objects after handle_command(user_input, state, ...) returned result
\* for the state object id: a returned new_state is a new CookingState
\* whose ingredient_subs and ingredient_strikes are copies of the input's;
\* new_strikes.update(matches) writes into the copy
CoreOnObjects(heap, id, result) ==
    IF result.new_state = None THEN [heap |-> heap, new_state |-> None]
    ELSE LET strikes == Copy(heap, heap[id].ingredient_strikes)
             updated == [strikes.heap EXCEPT
                            ![strikes.ref] = result.new_state[1].ingredient_strikes]
             subs == Copy(updated, heap[id].ingredient_subs)
             instance == [ recipe_key |-> result.new_state[1].recipe_key,
                           current_step |-> result.new_state[1].current_step,
                           ingredient_subs |-> subs.ref,
                           ingredient_strikes |-> strikes.ref ]
         IN  [ heap |-> Append(subs.heap, instance),
               new_state |-> Some(Len(subs.heap) + 1) ]

\* a change in place of the CookingState instance id: its current_step
\* raised by one, an ingredient put into or taken out of its strike set, a
\* substitute recorded in its dict
ChangedInPlace(heap, id, what, ingredient) ==
    CASE what = "current_step" ->
           [heap EXCEPT ![id].current_step = @ + 1]
      [] what = "ingredient_strikes" ->
           [heap EXCEPT ![heap[id].ingredient_strikes] =
               IF ingredient \in @ THEN @ \ {ingredient} ELSE @ \cup {ingredient}]
      [] what = "ingredient_subs" ->
           [heap EXCEPT ![heap[id].ingredient_subs] = Put(@, ingredient, "Olive Oil")]

ObjectInputs == {"k", "x 3", "x salt", "x oil", "i", "hmm"}

InitObjects ==
    /\ SESSIONS = << >>
    /\ last = NoRequest
    /\ scen = 0
    /\ out = NoCall
    /\ calls = << >>
    /\ pick = PickState(FALSE, << >>)
    /\ \E key \in RecipeKeys :
         \E step \in 0..Len(RECIPE_LIBRARY(key).steps),
            subs \in SubsChoices(key), strikes \in StrikeChoices(key) :
            eng = [ heap |-> << [ recipe_key |-> key, current_step |-> step,
                                  ingredient_subs |-> 2, ingredient_strikes |-> 3 ],
                                subs, strikes >>,
                    state |-> 1, new_state |-> None, changed |-> "none" ]

\* handle_command called with the state object
CallOnObjects(m, state, result) ==
    /\ out.fn = "none"
    /\ eng' = [eng EXCEPT
                  !.heap = CoreOnObjects(eng.heap, eng.state, result).heap,
                  !.new_state = CoreOnObjects(eng.heap, eng.state, result).new_state]
    /\ out' = [NoCall EXCEPT !.fn = "handle_command", !.input = m,
                             !.pre = Some(state), !.handled = result.handled,
                             !.reply = result.reply,
                             !.new_state = result.new_state,
                             !.raised = result.raised]
    /\ UNCHANGED <<SESSIONS, last, scen, pick, calls>>

HandleCommandOnObjects ==
    \E m \in ObjectInputs :
        CallOnObjects(m, Deref(eng.heap, eng.state),
            handle_command(CharsOf[m], Deref(eng.heap, eng.state),
                RECIPE_LIBRARY(eng.heap[eng.state].recipe_key).name,
                RECIPE_LIBRARY(eng.heap[eng.state].recipe_key).ingredients,
                RECIPE_LIBRARY(eng.heap[eng.state].recipe_key).steps))

\* after the call the caller changes, in place, the state it passed in
ChangeStateLater ==
    /\ out.fn = "handle_command"
    /\ eng.changed = "none"
    /\ \E what \in {"current_step", "ingredient_strikes", "ingredient_subs"} :
          eng' = [eng EXCEPT
                    !.heap = ChangedInPlace(eng.heap, eng.state, what,
                        RECIPE_LIBRARY(eng.heap[eng.state].recipe_key).ingredients[2]),
                    !.changed = "state"]
    /\ UNCHANGED <<SESSIONS, last, out, scen, pick, calls>>

\* after the call the caller changes, in place, the state it was returned
ChangeNewStateLater ==
    /\ out.fn = "handle_command"
    /\ eng.changed = "none"
    /\ eng.new_state # None
    /\ \E what \in {"current_step", "ingredient_strikes", "ingredient_subs"} :
          eng' = [eng EXCEPT
                    !.heap = ChangedInPlace(eng.heap, eng.new_state[1], what,
                        RECIPE_LIBRARY(eng.heap[eng.state].recipe_key).ingredients[2]),
                    !.changed = "new_state"]
    /\ UNCHANGED <<SESSIONS, last, out, scen, pick, calls>>

NextObjects == HandleCommandOnObjects \/ ChangeStateLater \/ ChangeNewStateLater

SpecObjects == InitObjects /\ [][NextObjects]_vars

-----------------------------------------------------------------------------
(* Spec: one client talking to the API server, one live session at a time *)

Init ==
    /\ SESSIONS = << >>
    /\ last = NoRequest
    /\ eng = CookingState("garlic_pasta")
    /\ out = NoCall
    /\ scen = 0
    /\ pick = PickState(FALSE, << >>)
    /\ calls = << >>

StartSession == (\E k \in RequestKeys : start_session(k, "s1")) /\ scen' = 0

SendMessage ==
    \E m \in Inputs \cup HugeInputs \cup BlankInputs : send_message("s1", m)

DeleteSession == delete_session("s1") /\ scen' = 0

GetSessionInfo == get_session_info("s1") /\ scen' = 0

\* requests that name a session id the server never handed out
StrangerMessages == {"k", " "}
StrangerRequest ==
    \/ \E m \in StrangerMessages : send_message("s2", m)
    \/ get_session_info("s2") /\ scen' = 0
    \/ delete_session("s2") /\ scen' = 0

Next ==
    StartSession \/ SendMessage \/ DeleteSession \/ GetSessionInfo \/ StrangerRequest

Spec == Init /\ [][Next]_vars

-----------------------------------------------------------------------------
(* Properties of the API server (Spec) and of the engines called directly *)
(* (SpecEngine)                                                            *)

\* the steps of the recipe a Cooking State is about
StepsOf(state) == RECIPE_LIBRARY(state.recipe_key).steps

\* the last request was a message the server answered with 200
Answered == last.op = "send_message" /\ last.status = 200

\* the engine functions a direct call can be of
CoreCall == out.fn = "handle_command"
HeadlessCall == out.fn = "handle_user_command_headless"
StreamlitCall == out.fn = "handle_user_command"

\* C1: in the API path, after any sequence of requests, the current_step
\* of every session is between 0 and the number of steps of its recipe.
C1_StepInRange ==
    \A sid \in DOMAIN SESSIONS :
        /\ SESSIONS[sid].cooking_state.current_step >= 0
        /\ SESSIONS[sid].cooking_state.current_step
              <= Len(StepsOf(SESSIONS[sid].cooking_state))

\* a session moved past the last step by "x 999" stays on the position
\* after the last step when "k" follows
C1_Witness ==
    /\ Answered /\ last.message = "k" /\ last.handled
    /\ last.session_id \in DOMAIN SESSIONS
    /\ last.pre[1].current_step = Len(StepsOf(last.pre[1]))
    /\ SESSIONS[last.session_id].cooking_state.current_step
          = Len(StepsOf(last.pre[1]))

\* the confirmation words of the specification
ConfirmationWords ==
    { Chars("k"), Chars("ok"), Chars("okay"), Chars("next"), Chars("next step"),
      Chars("done"), Chars("finished") }

\* C2: in the API path, each confirmation word (k, ok, okay, next, next
\* step, done, finished), in any letter case, sent to a session whose
\* current_step is below the number of steps, is handled by the command
\* engine and moves current_step up by exactly one, leaving recipe_key,
\* ingredient_subs and ingredient_strikes as they were.
C2_ConfirmAdvances ==
    ( /\ Answered
      /\ Lower(Stripped[last.message]) \in ConfirmationWords
      /\ last.pre[1].current_step < Len(StepsOf(last.pre[1])) )
    => /\ last.handled
       /\ SESSIONS[last.session_id].cooking_state
            = [last.pre[1] EXCEPT !.current_step = last.pre[1].current_step + 1]

\* the number N each "x N" message names
JumpNumber(m) ==
    CASE m = "x 0" -> 0 [] m = "x 3" -> 3 [] m = "x 5" -> 5
      [] m = "x 999" -> 999 [] m = "X 7" -> 7 [] m = "x  2" -> 2

C4_JumpNotStrike ==
    ( /\ CoreCall \/ HeadlessCall
      /\ out.input \in JumpInputs )
    => /\ eng = [out.pre[1] EXCEPT !.current_step = eng.current_step]
       /\ (HeadlessCall =>
             /\ out.session_update # None
             /\ out.session_update[1].strikes_to_add = {}
             /\ out.session_update[1].strikes_to_remove = {})

\* "x 3" given to handle_command on the recipe with the unstruck
\* ingredient "3 large eggs": the step moves, nothing is struck
C4_Witness ==
    /\ CoreCall /\ out.input = "x 3"
    /\ eng.recipe_key = "scrambled_eggs"
    /\ "3 large eggs" \notin out.pre[1].ingredient_strikes
    /\ out.pre[1].current_step # 3
    /\ eng.current_step = 3
    /\ eng.ingredient_strikes = out.pre[1].ingredient_strikes

\* the reset phrases of the specification
ResetPhrases ==
    << Chars("start over"), Chars("restart"), Chars("start again"),
       Chars("reset recipe"), Chars("start this recipe over"), Chars("clear") >>

\* C5: in the API path, every message that is or contains a reset phrase
\* (start over, restart, start again, reset recipe, start this recipe
\* over, clear) is handled by the command engine and leaves the session
\* with the same recipe_key, current_step = 0 and empty ingredient_subs
\* and ingredient_strikes.
C5_ResetHandled ==
    ( /\ Answered
      /\ \E i \in 1..Len(ResetPhrases) :
            Contains(Lower(Stripped[last.message]), ResetPhrases[i]) )
    => /\ last.handled
       /\ SESSIONS[last.session_id].cooking_state
            = CookingState(last.pre[1].recipe_key)

\* C6: handle_user_command_headless given "clear" for a session holding at
\* least one substitution and one strike, and the SessionUpdate it returns
\* applied, leaves empty ingredient_subs, empty ingredient_strikes and
\* current_step = 0.
C6_ClearEmptiesAll ==
    ( /\ HeadlessCall /\ out.input = "clear"
      /\ DOMAIN out.pre[1].ingredient_subs # {}
      /\ out.pre[1].ingredient_strikes # {} )
    => /\ DOMAIN eng.ingredient_subs = {}
       /\ eng.ingredient_strikes = {}
       /\ eng.current_step = 0

\* the piece occurs in the reply
InReply(reply, piece) == \E j \in 1..Len(reply) : reply[j] = piece

\* the reply lists the numbered text struck through: "N. ~~text~~"
StruckInReply(reply, text) ==
    \E j \in 2..(Len(reply) - 1) :
        reply[j - 1] = ". ~~" /\ reply[j] = text /\ reply[j + 1] = "~~"

\* the reply lists the numbered text as it is: "N. text"
PlainInReply(reply, text) ==
    \E j \in 2..Len(reply) : reply[j - 1] = ". " /\ reply[j] = text

\* the reply announces step n of total as the current one and gives text
CurrentInReply(reply, n, total, text) ==
    LET heading == <<"**Current Step (">> \o NumStr(n) \o <<"/">> \o NumStr(total)
                     \o <<"):**", "\n", text>>
    IN  \E j \in 1..(Len(reply) - Len(heading) + 1) :
            SubSeq(reply, j, j + Len(heading) - 1) = heading

\* the Cooking State of the session of the last request
SessionState == SESSIONS[last.session_id].cooking_state

\* C7: through the API on a fresh session of the 7-step recipe: "k" is
\* handled, moves to step 1 and its reply contains the first step's text;
\* a following "x 5" is handled, moves to step 5, and its reply lists
\* exactly steps 1 to 5 as completed; a following "what" is handled, its
\* reply shows step 6 as the current step, the state stays as it was and
\* no ingredient is struck.
C7_CoreScenario ==
    /\ scen = 1 =>
          /\ Answered /\ last.handled /\ last.message = "k"
          /\ SessionState.current_step = 1
          /\ InReply(last.reply, StepsOf(SessionState)[1])
    /\ scen = 2 =>
          /\ Answered /\ last.handled /\ last.message = "x 5"
          /\ SessionState.current_step = 5
          /\ \A i \in 1..7 :
                /\ StruckInReply(last.reply, StepsOf(SessionState)[i]) <=> i <= 5
                /\ PlainInReply(last.reply, StepsOf(SessionState)[i]) <=> i > 5
    /\ scen = 3 =>
          /\ Answered /\ last.handled /\ last.message = "what"
          /\ CurrentInReply(last.reply, 6, 7, StepsOf(SessionState)[6])
          /\ SessionState = last.pre[1]
          /\ SessionState = [CookingState("garlic_pasta") EXCEPT !.current_step = 5]
          /\ ~InReply(last.reply, "- ~~")

\* the scenario carried to its end
C7_Witness ==
    /\ scen = 3 /\ Answered /\ last.message = "what"
    /\ SessionState.current_step = 5

\* the free-form text of the specification
FreeText == "I just added the garlic, what's the smell like?"

\* C8: the free-form text given to handle_user_command_headless, and to
\* the Streamlit handle_user_command outside pick mode, is not handled:
\* handled = false, the reply is empty, and no state is updated (the
\* list-steps rule fires only on "s" or a step-listing phrase).
C8_FreeTextUnhandled ==
    ( /\ HeadlessCall \/ (StreamlitCall /\ ~out.pre_pick[1].pending_recipe_pick)
      /\ out.input = FreeText )
    => /\ ~out.handled
       /\ out.reply = << >>
       /\ out.session_update = None
       /\ eng = out.pre[1]
       /\ pick = out.pre_pick[1]

\* the strike commands of the specification naming the eggs
EggStrikeInputs ==
    { "x eggs", "86 EGGS", "strike eggs", "strikethrough eggs",
      "cross off eggs", "cross eggs" }

\* C9: handle_command given "x eggs" or "86 EGGS", or "eggs" after any
\* other strike prefix, on the recipe with the ingredient "3 large eggs",
\* handles the message and strikes "3 large eggs".
C9_EveryPrefixStrikes ==
    ( /\ CoreCall /\ out.input \in EggStrikeInputs
      /\ eng.recipe_key = "scrambled_eggs" )
    => /\ out.handled
       /\ "3 large eggs" \in eng.ingredient_strikes

\* the target each strike message names, lower-cased
StrikeTarget(m) ==
    CASE m \in EggStrikeInputs -> Chars("eggs")
      [] m = "x salt" -> Chars("salt")
      [] m = "x pasta" -> Chars("pasta")
      [] m = "x oil" -> Chars("oil")
      [] m = "x zzz" -> Chars("zzz")
      [] m = "x almond" -> Chars("almond")
      [] m = "x 3 eggs" -> Chars("3 eggs")

\* the ingredients whose lower-cased text, joined by a space with the
\* lower-cased substitute when one is recorded, contains the target
ExpectedStrikes(state, target) ==
    { ing \in Range(RECIPE_LIBRARY(state.recipe_key).ingredients) :
        Contains(IF ing \in DOMAIN state.ingredient_subs
                 THEN Lower(Chars(ing)) \o <<" ">>
                        \o Lower(Chars(state.ingredient_subs[ing]))
                 ELSE Lower(Chars(ing)),
                 target) }

\* C10: for a strike command handle_user_command_headless returns as
\* strikes_to_add exactly the ingredients whose lower-cased text joined
\* with the lower-cased substitute contains the lower-cased target, all of
\* them at once, and names no other change.
C10_StrikeMatches ==
    ( /\ HeadlessCall
      /\ out.input \in StrikeInputs \ {"86 "} )
    => /\ out.handled
       /\ IF ExpectedStrikes(out.pre[1], StrikeTarget(out.input)) = {}
          THEN out.session_update = None
          ELSE out.session_update =
                 Some([SessionUpdate EXCEPT !.strikes_to_add =
                         ExpectedStrikes(out.pre[1], StrikeTarget(out.input))])
       /\ eng = [out.pre[1] EXCEPT !.ingredient_strikes =
                   @ \cup ExpectedStrikes(out.pre[1], StrikeTarget(out.input))]

\* "x almond": one ingredient matched through its substitute "almond milk"
\* only; "x pasta": several ingredients struck at once
C10_Witness ==
    /\ HeadlessCall /\ out.handled /\ out.session_update # None
    /\ \/ /\ out.input = "x almond"
          /\ out.session_update[1].strikes_to_add
               = {"Optional: 1-2 tablespoons milk or cream"}
       \/ /\ out.input = "x pasta"
          /\ Cardinality(out.session_update[1].strikes_to_add) = 3
          /\ out.pre[1].ingredient_strikes = {}

\* the digits of a numeric message
PickNumber(m) == CASE m = "1" -> 1 [] m = "2" -> 2

\* the reply of a pick-mode search that displayed results
ShowsResults(reply) == Len(reply) > 0 /\ reply[1] = "Recipes matching '"

\* the reply numbers the recipe of the key as entry n: "n. <name>"
NumberedInReply(reply, n, key) ==
    \E j \in 1..(Len(reply) - 2) :
        SubSeq(reply, j, j + 2) = NumStr(n) \o <<". ", RECIPE_LIBRARY(key).name>>

\* the most recent call before call j whose reply displayed results, or 0
LastShown(j) ==
    IF \E d \in 1..(j - 1) : ShowsResults(calls[d].reply)
    THEN CHOOSE d \in 1..(j - 1) :
            /\ ShowsResults(calls[d].reply)
            /\ \A e \in (d + 1)..(j - 1) : ~ShowsResults(calls[e].reply)
    ELSE 0

\* C11: in the Streamlit handle_user_command, after any sequence of
\* pick-mode searches, a number N with 1 <= N <= len(pick_candidates)
\* switches recipe_key to the key that the most recent search that
\* displayed results numbered N in its reply, and not to the N-th recipe
\* of the whole catalog.
C11_PickFromShownList ==
    \A j \in 1..Len(calls) :
        ( /\ calls[j].fn = "handle_user_command"
          /\ calls[j].input \in {"1", "2"}
          /\ calls[j].pre_pick[1].pending_recipe_pick
          /\ PickNumber(calls[j].input)
                <= Len(calls[j].pre_pick[1].pick_candidates) )
        => /\ LastShown(j) > 0
           /\ calls[j].rerun
           /\ \E key \in RecipeKeys :
                 /\ NumberedInReply(calls[LastShown(j)].reply,
                                    PickNumber(calls[j].input), key)
                 /\ (IF j = Len(calls) THEN eng ELSE calls[j + 1].pre[1])
                       = CookingState(key)

\* "1" typed after a search whose list began with the second recipe of
\* the catalog, a search without results in between
C11_Witness ==
    /\ Len(calls) = 4
    /\ calls[2].input = "eggs" /\ ShowsResults(calls[2].reply)
    /\ calls[3].input = "soup"
    /\ calls[4].input = "1" /\ calls[4].rerun
    /\ calls[4].pre[1].recipe_key = "garlic_pasta"
    /\ eng.recipe_key = "scrambled_eggs"
    /\ get_recipe_keys_and_labels[1] = "garlic_pasta"

\* the session state after call j
PostOf(j) == IF j = Len(calls) THEN eng ELSE calls[j + 1].pre[1]

\* the 'sub <new> for <original>' occurrences of each substitution message,
\* in order, read off its lower-cased text: an occurrence ends at , ; . or
\* at the end of the message
SubOccurrences(m) ==
    CASE m = "sub olive oil for butter" ->
           << [new |-> "olive oil", original |-> "butter"] >>
      [] m = "Sub Ghee for Butter" ->
           << [new |-> "ghee", original |-> "butter"] >>
      [] m = "substitute white pepper for black pepper" ->
           << [new |-> "white pepper", original |-> "black pepper"] >>
      [] m = "sub oil for butter and sub white pepper for black pepper" ->
           << [new |-> "oil",
               original |-> "butter and sub white pepper for black pepper"] >>
      [] m = "sub ghee for butter, sub tofu for salt" ->
           << [new |-> "ghee", original |-> "butter"],
              [new |-> "tofu", original |-> "salt"] >>
      [] m = "sub   for oil" ->
           << [new |-> "", original |-> "oil"] >>
      [] m = "sub x for  , thanks" ->
           << [new |-> "x", original |-> ""] >>
      [] OTHER -> << >>

RECURSIVE SplitLines(_)
SplitLines(rope) ==
    IF rope = << >> THEN << >>
    ELSE IF \E i \in 1..Len(rope) : rope[i] = "\n"
    THEN LET i == CHOOSE k \in 1..Len(rope) :
                      rope[k] = "\n" /\ \A h \in 1..(k - 1) : rope[h] # "\n"
         IN  <<SubSeq(rope, 1, i - 1)>> \o SplitLines(SubSeq(rope, i + 1, Len(rope)))
    ELSE <<rope>>

\* the entries a renderer returned: the list of view_helpers, the lines of
\* the string of core
EntriesOf(call) ==
    IF call.fn \in {"format_steps_list", "format_ingredient_list"}
    THEN SplitLines(call.reply)
    ELSE call.reply

\* entry number n of a steps list: the step struck through, and plain
StruckStep(n, step) == NumStr(n) \o <<". ~~", step, "~~">>
PlainStep(n, step) == NumStr(n) \o <<". ", step>>

\* a call of one of the two step renderers
StepRendererCall ==
    out.fn \in {"format_steps_list", "format_steps_with_progress_markdown"}

\* C13: the step renderers (format_steps_with_progress_markdown and the
\* core format_steps_list) return one entry per step in the original
\* order, entry i numbered i + 1, and for every current_step from 0 to
\* len(steps) exactly the entries with index below current_step are
\* wrapped in strikethrough markup, all others plain.
C13_StepsRendered ==
    StepRendererCall =>
        LET steps == out.pre[1].steps
            current_step == out.pre[1].current_step
            entries == EntriesOf(out)
        IN  /\ Len(entries) = Len(steps)
            /\ \A n \in 1..Len(steps) :
                  /\ n - 1 < current_step => entries[n] = StruckStep(n, steps[n])
                  /\ n - 1 >= current_step => entries[n] = PlainStep(n, steps[n])

\* seven steps rendered by the view helper with the first three done
C13_Witness ==
    /\ out.fn = "format_steps_with_progress_markdown"
    /\ Len(out.pre[1].steps) = 7
    /\ out.pre[1].current_step = 3
    /\ out.reply[3] = StruckStep(3, out.pre[1].steps[3])
    /\ out.reply[4] = PlainStep(4, out.pre[1].steps[4])

\* a call of one of the two ingredient renderers
IngredientRendererCall ==
    out.fn \in {"format_ingredient_list", "format_working_ingredients_markdown"}

\* C14: the ingredient renderers return exactly one line per ingredient in
\* the recipe's original order for every combination of substitutions and
\* strikes; a line is wrapped in strikethrough markup exactly when the
\* original ingredient is in the strikes set, and shows "<substitute>
\* (instead of <original>)" exactly when a substitute is recorded for the
\* ingredient.
C14_IngredientsRendered ==
    IngredientRendererCall =>
        LET ingredients == out.pre[1].ingredients
            subs == out.pre[1].ingredient_subs
            strikes == out.pre[1].ingredient_strikes
            entries == EntriesOf(out)
        IN  /\ Len(entries) = Len(ingredients)
            /\ \A n \in 1..Len(ingredients) :
                  LET ing == ingredients[n]
                      shown == IF ing \in DOMAIN subs
                               THEN <<subs[ing], " (instead of ", ing, ")">>
                               ELSE <<ing>>
                  IN  entries[n] = IF ing \in strikes
                                   THEN <<"- ~~">> \o shown \o <<"~~">>
                                   ELSE <<"- ">> \o shown

\* the commands of the core engine that only read the state
ReadOnlyInputs == {"i", "s", "what", "1"}

\* C15: "i" dispatched twice to handle_command with no state-changing
\* command in between, or with any number of read-only commands (s, what,
\* a step number) in between, yields the same reply both times and leaves
\* the state as it was before the first.
C15_IngredientsIdempotent ==
    \A j \in 1..Len(calls), k \in 1..Len(calls) :
        ( /\ j < k
          /\ calls[j].fn = "handle_command"
          /\ calls[j].input = "i" /\ calls[k].input = "i"
          /\ \A h \in (j + 1)..(k - 1) : calls[h].input \in ReadOnlyInputs )
        => /\ calls[k].reply = calls[j].reply
           /\ calls[k].handled /\ calls[j].handled
           /\ PostOf(k) = calls[j].pre[1]

\* after a strike: i, what, i
C15_Witness ==
    /\ Len(calls) = 4
    /\ calls[1].fn = "handle_command"
    /\ calls[1].input = "x salt" /\ calls[1].new_state # None
    /\ calls[2].input = "i" /\ calls[3].input = "what" /\ calls[4].input = "i"
    /\ calls[4].reply = calls[2].reply
    /\ eng.ingredient_strikes # {}

C17_Total ==
    CoreCall =>
        /\ out.raised = ""
        /\ ~out.handled =>
              out.reply = << >> /\ out.new_state = None /\ ~out.advance_step

\* the number N each purely numeric message names
StepNumber(m) == CASE m = "1" -> 1 [] m = "6" -> 6 [] m = "0" -> 0 [] m = "9" -> 9

\* the reply says how many steps there are: the count as a run of pieces
CountInReply(reply, count) ==
    \E j \in 1..(Len(reply) - Len(NumStr(count)) + 1) :
        SubSeq(reply, j, j + Len(NumStr(count)) - 1) = NumStr(count)

\* C19: for a purely numeric input N outside pick mode, handle_command
\* and handle_user_command_headless return handled = true and leave the
\* state as it is; for 1 <= N <= len(steps) the reply carries the text of
\* step N, and for N = 0 or N > len(steps) the reply reports the number of
\* steps, as a handled reply that is not passed on to the LLM fallback.
C19_NumberHandled ==
    ( /\ CoreCall \/ HeadlessCall
      /\ out.input \in {"1", "6", "0", "9"} )
    => LET steps == StepsOf(out.pre[1])
           n == StepNumber(out.input)
       IN  /\ out.handled
           /\ eng = out.pre[1]
           /\ IF 1 <= n /\ n <= Len(steps)
              THEN InReply(out.reply, steps[n])
              ELSE CountInReply(out.reply, Len(steps))

\* a call of call_agent_sous_chef in which the client returned a response
AgentAnswered ==
    out.fn = "call_agent_sous_chef" /\ out.pre[1].kind = "content"

\* C20: call_agent_sous_chef always returns a non-empty reply: for every
\* model response, be it valid JSON, JSON without a "reply" key, text that
\* is not JSON, or the empty string, the call returns and the "reply" of
\* the dict it returns is not empty.
C20_ReplyNonEmpty ==
    AgentAnswered => out.raised = "" /\ out.reply # << >>

\* the dict and the set a CookingState instance holds
ContainersOf(heap, id) == {heap[id].ingredient_subs, heap[id].ingredient_strikes}

\* C18: handle_command never mutates the state object it is given: after
\* the call, and until the caller itself changes that object, its
\* recipe_key, current_step, ingredient_subs and ingredient_strikes are
\* what they were before the call; and a returned new_state shares no dict
\* or set with the input state: a later change in place to one of the two
\* states is not visible in the other.
C18_InputUntouched ==
    out.fn = "handle_command" =>
        /\ eng.changed # "state" => Deref(eng.heap, eng.state) = out.pre[1]
        /\ eng.new_state # None =>
              /\ eng.new_state[1] # eng.state
              /\ ContainersOf(eng.heap, eng.new_state[1])
                    \cap ContainersOf(eng.heap, eng.state) = {}
              /\ eng.changed # "new_state" =>
                    Deref(eng.heap, eng.new_state[1]) = out.new_state[1]

\* "k" returned a new state with the strikes of the input; the caller then
\* changed the strike set of the new state, and the input's is as it was
C18_Witness ==
    /\ out.fn = "handle_command" /\ out.input = "k"
    /\ eng.new_state # None
    /\ eng.changed = "new_state"
    /\ out.new_state[1].ingredient_strikes = out.pre[1].ingredient_strikes
    /\ Deref(eng.heap, eng.new_state[1]).ingredient_strikes
          # out.pre[1].ingredient_strikes
    /\ Deref(eng.heap, eng.state) = out.pre[1]

-----------------------------------------------------------------------------
(* The fallback turn of send_message (Spec) *)

\* the last request was a message the engine did not handle, so that
\* send_message called the fallback
FallbackTurn == last.op = "send_message" /\ last.fallback # "none"

\* the text of a reply has at least one character
NonEmptyText(reply) == \E j \in 1..Len(reply) : reply[j] # ""

AdvancedByFallback(pre, advance_step) ==
    IF advance_step /\ pre.current_step < Len(StepsOf(pre))
    THEN pre.current_step + 1
    ELSE pre.current_step

\* a fallback turn of send_message applies the fallback's advance_step
ApiFallbackApplied ==
    FallbackTurn =>
        /\ last.session_id \in DOMAIN SESSIONS
        /\ SessionState.current_step = AdvancedByFallback(last.pre[1], last.advance_step)
        /\ SessionState.recipe_key = last.pre[1].recipe_key
        /\ SessionState.ingredient_subs = last.pre[1].ingredient_subs
        /\ SessionState.ingredient_strikes = last.pre[1].ingredient_strikes

\* a fallback turn of the Streamlit page's chat input does the same
ChatFallbackTurn == out.fn = "chat_input" /\ out.fallback # "none"
ChatFallbackApplied ==
    ChatFallbackTurn =>
        /\ eng.current_step = AdvancedByFallback(out.pre[1], out.advance_step)
        /\ eng.recipe_key = out.pre[1].recipe_key
        /\ eng.ingredient_subs = out.pre[1].ingredient_subs
        /\ eng.ingredient_strikes = out.pre[1].ingredient_strikes
        /\ pick = out.pre_pick[1]

-----------------------------------------------------------------------------
(* Requests the API rejects (Spec) *)

\* the requests the API is to reject: a start with a recipe key the library
\* does not have, an operation on a session id the store does not have, a
\* message that is empty once stripped
ToReject(request, store) ==
    \/ request.op = "start_session" /\ request.recipe_key \notin RecipeKeys
    \/ request.op # "start_session" /\ request.session_id \notin DOMAIN store
    \/ request.op = "send_message" /\ Stripped[request.message] = << >>

\* C23: a start request with an unknown recipe_key, a request on an unknown
\* session_id and a message that is empty or only whitespace are answered
\* with 404, 404 and 400, and leave the session store, with every session's
\* Cooking State and message log, as it was; no engine or fallback result
\* is part of the answer.
C23_RejectedChangesNothing ==
    [][ ToReject(last', SESSIONS) =>
            /\ last'.status = IF last'.op # "start_session"
                                 /\ last'.session_id \in DOMAIN SESSIONS
                              THEN 400 ELSE 404
            /\ SESSIONS' = SESSIONS
            /\ ~last'.handled /\ last'.reply = << >> /\ last'.fallback = "none"
      ]_vars

\* a blank message is rejected in a session that has taken a turn and
\* moved on: its state and its log of three entries are still there
C23_Witness ==
    /\ last.op = "send_message" /\ last.status = 400
    /\ last.session_id \in DOMAIN SESSIONS
    /\ SessionState = last.pre[1]
    /\ SessionState.current_step > 0
    /\ SESSIONS[last.session_id].messages = 3

-----------------------------------------------------------------------------
(* How current_step moves in an API session (Spec) *)

\* the messages the core engine takes as a list, status, show-step or
\* strike command in state pre: a number is a show-step command when the
\* recipe has a step of that number
ListCommands == {"i", "ingredients", "s", "steps"}
StatusCommands == {"what"}
ShowStepCommands(pre) ==
    {m \in {"1", "6", "0", "9"} : StepNumber(m) \in 1..Len(StepsOf(pre))}
StrikeCommands ==
    {"x eggs", "x salt", "x pasta", "x oil", "x zzz", "x almond", "x 3 eggs"}

\* C25: in an API session current_step gets smaller only by an "x N" jump
\* with N below the current value; a confirmation command and a fallback
\* turn never make it smaller; a list, status, show-step or strike command
\* is handled and leaves it as it is.
C25_StepMovesOnlyByCommand ==
    Answered =>
        /\ SessionState.current_step < last.pre[1].current_step =>
              /\ last.handled
              /\ last.message \in JumpInputs
              /\ JumpNumber(last.message) < last.pre[1].current_step
        /\ (last.message \in ConfirmInputs \/ FallbackTurn) =>
              SessionState.current_step >= last.pre[1].current_step
        /\ last.message \in ListCommands \cup StatusCommands \cup StrikeCommands
                                \cup ShowStepCommands(last.pre[1]) =>
              /\ last.handled
              /\ SessionState.current_step = last.pre[1].current_step

\* a jump takes a session back from a later step
C25_Witness ==
    /\ Answered /\ last.message = "x 3"
    /\ last.pre[1].current_step > 3
    /\ SessionState.current_step = 3

\* C26: in the API a session keeps the recipe_key it was started with:
\* no request changes the recipe_key of a session that is in the store
\* before and after it, whether the engine returned a new state or the
\* fallback took the turn.
C26_RecipeKeyFixed ==
    [][ \A sid \in DOMAIN SESSIONS \cap DOMAIN SESSIONS' :
            SESSIONS'[sid].cooking_state.recipe_key
                = SESSIONS[sid].cooking_state.recipe_key ]_vars

\* a session of the second recipe has taken the engine's new state and is
\* still a session of that recipe
C26_Witness ==
    /\ Answered /\ last.handled
    /\ last.pre[1].recipe_key = "scrambled_eggs"
    /\ SessionState # last.pre[1]
    /\ SessionState.recipe_key = "scrambled_eggs"

-----------------------------------------------------------------------------
(* Properties of a session of one engine (SpecSession) *)

\* the ingredient list of the recipe a Cooking State is about
IngredientsOf(state) == RECIPE_LIBRARY(state.recipe_key).ingredients

\* C24: after any sequence of commands, every element of ingredient_strikes
\* is one of the strings of the current recipe's ingredient list, never the
\* target the user typed and never the name of a substitute.
C24_StrikesAreIngredients ==
    eng.ingredient_strikes \subseteq Range(IngredientsOf(eng))

\* "x almond" names only the substitute of the last ingredient, and the
\* ingredient itself is what gets struck, next to an earlier strike
C24_Witness ==
    /\ HeadlessCall /\ out.input = "x almond"
    /\ out.pre[1].ingredient_strikes # {}
    /\ \E ing \in Range(IngredientsOf(eng)) :
          /\ ing \in DOMAIN eng.ingredient_subs
          /\ eng.ingredient_subs[ing] = "almond milk"
          /\ ~Contains(LowerText(ing), Chars("almond"))
          /\ ing \in eng.ingredient_strikes \ out.pre[1].ingredient_strikes

\* the last call was a confirmation command of both engines
ConfirmCall ==
    /\ CoreCall \/ HeadlessCall
    /\ Lower(Strip(CharsOf[out.input])) \in CoreNextTriggers

\* the reply with which an engine says that the recipe is complete
CompleteReply(fn) ==
    IF fn = "handle_command"
    THEN <<"You've completed all steps! u1F389">>
    ELSE <<"You've already completed all the steps in this recipe.">>

\* C27: at current_step = len(steps) a confirmation command (k, ok, next,
\* done) is handled, answered with the reply that the recipe is complete,
\* and leaves the state as it is; and after n "k" commands in a row from
\* step 0 the session is at step n, or at len(steps) once n has reached it,
\* where it stays for every further "k".
C27_CompleteStaysComplete ==
    /\ (ConfirmCall /\ out.pre[1].current_step = Len(StepsOf(out.pre[1]))) =>
          /\ out.handled
          /\ out.reply = CompleteReply(out.fn)
          /\ eng = out.pre[1]
    /\ scen > 0 =>
          /\ out.input = "k" /\ out.handled
          /\ eng.current_step = Min(scen, Len(StepsOf(eng)))

\* two more "k" than the recipe has steps, and the session is at the
\* position after the last step
C27_Witness ==
    /\ ConfirmCall
    /\ scen = Len(StepsOf(eng)) + 2
    /\ eng.current_step = Len(StepsOf(eng))
    /\ out.reply = CompleteReply(out.fn)

-----------------------------------------------------------------------------
(* Read-only commands in a sequence of core calls (SpecCaller) *)

\* the state a caller of handle_command holds after sending the inputs one
\* after another from state on, applying each new_state
RECURSIVE RunCore(_, _)
RunCore(state, inputs) ==
    IF inputs = << >> THEN state
    ELSE LET result == handle_command(CharsOf[Head(inputs)], state,
                                      RECIPE_LIBRARY(state.recipe_key).name,
                                      RECIPE_LIBRARY(state.recipe_key).ingredients,
                                      RECIPE_LIBRARY(state.recipe_key).steps)
         IN  RunCore(IF result.new_state # None THEN result.new_state[1] ELSE state,
                     Tail(inputs))

\* the inputs of the calls made so far, and those that are not read-only
InputsOf(history) == [j \in 1..Len(history) |-> history[j].input]
IsChanging(m) == m \notin ReadOnlyInputs

\* C28: handle_command returns new_state = None for i, s, what and a plain
\* step number, the caller's state after such a call is the state before
\* it, and the state at the end of a sequence of commands is the state the
\* sequence gives with every such command left out.
C28_ReadOnlyCommands ==
    (calls # << >> /\ calls[1].fn = "handle_command") =>
        /\ \A j \in 1..Len(calls) :
              calls[j].input \in ReadOnlyInputs =>
                  /\ calls[j].handled
                  /\ calls[j].new_state = None
                  /\ PostOf(j) = calls[j].pre[1]
        /\ eng = RunCore(calls[1].pre[1], SelectSeq(InputsOf(calls), IsChanging))

\* what, x salt, 1, k: the state is the one that x salt, k alone give
C28_Witness ==
    /\ Len(calls) = 4 /\ calls[1].fn = "handle_command"
    /\ InputsOf(calls) = <<"what", "x salt", "1", "k">>
    /\ eng.current_step = 1 /\ eng.ingredient_strikes # {}
    /\ eng = RunCore(calls[1].pre[1], <<"x salt", "k">>)

-----------------------------------------------------------------------------
(* Strike and unstrike commands that change nothing (SpecEngine) *)

\* the target an unstrike message names, and that of any strike or unstrike
\* message
UnstrikeTarget(m) ==
    CASE m = "unstrike eggs" -> Chars("eggs")
      [] m = "restore pasta" -> Chars("pasta")
      [] m = "uncross salt" -> Chars("salt")
CommandTarget(m) == IF m \in UnstrikeInputs THEN UnstrikeTarget(m) ELSE StrikeTarget(m)

\* the strike and unstrike commands of each engine: the core engine has the
\* strike command "x <target>" only
TargetCommands(fn) ==
    IF fn = "handle_command" THEN StrikeCommands
    ELSE (StrikeInputs \ {"86 "}) \cup UnstrikeInputs

\* the last call was a strike or unstrike command of the called engine
\* whose target is found in no ingredient of the recipe
NoMatchCall ==
    /\ CoreCall \/ HeadlessCall
    /\ out.input \in TargetCommands(out.fn)
    /\ ExpectedStrikes(out.pre[1], CommandTarget(out.input)) = {}

\* C29: a strike or unstrike command whose target matches no ingredient is
\* handled and leaves the state unchanged: handle_command returns
\* new_state = None, handle_user_command_headless session_update = None.
C29_NoMatchChangesNothing ==
    NoMatchCall =>
        /\ out.handled
        /\ out.new_state = None
        /\ out.session_update = None
        /\ eng = out.pre[1]

\* "restore pasta" on the eggs recipe, with strikes that stay
C29_Witness ==
    /\ NoMatchCall /\ HeadlessCall
    /\ out.input = "restore pasta"
    /\ out.handled /\ out.session_update = None
    /\ eng.ingredient_strikes # {} /\ eng.ingredient_subs # << >>

\* the reply that asks for a target
TargetPrompt ==
    <<"Tell me which ingredient to change, for example: u0060x oilu0060 or u006086 butteru0060.">>

\* C30: handle_user_command_headless given a strike or unstrike prefix with
\* nothing after it ("x ", "86 ", "restore ") handles the input, replies
\* with the prompt for a target, and changes no state.
C30_BarePrefixPrompts ==
    (HeadlessCall /\ out.input \in BarePrefixInputs) =>
        /\ out.handled
        /\ out.reply = TargetPrompt
        /\ out.session_update = None
        /\ eng = out.pre[1]

-----------------------------------------------------------------------------
(* Strike and unstrike in a sequence of headless calls (SpecCaller) *)

\* the strike and the unstrike messages of the headless caller
HeadlessStrikes == {"x salt", "x pasta", "x eggs", "x zzz"}
HeadlessUnstrikes == {"uncross salt", "restore pasta", "unstrike eggs"}

\* the ingredients a call's target matches in the state the call was made in
MatchedBy(call) == ExpectedStrikes(call.pre[1], CommandTarget(call.input))

\* C31: in a sequence of calls of handle_user_command_headless whose
\* updates are applied, a strike command leaves struck what was struck plus
\* the ingredients matching its target, an unstrike command what was struck
\* minus them, and nothing else of the state changes; so an unstrike of T
\* right after a strike of T leaves no ingredient matching T struck and
\* every other ingredient as it was before the strike, and a strike of a
\* struck ingredient or an unstrike of an unstruck one changes nothing.
C31_UnstrikeUndoesStrike ==
    (calls # << >> /\ calls[1].fn = "handle_user_command_headless") =>
        /\ \A j \in 1..Len(calls) :
              /\ calls[j].input \in HeadlessStrikes =>
                    PostOf(j) = [calls[j].pre[1] EXCEPT !.ingredient_strikes =
                                    @ \cup MatchedBy(calls[j])]
              /\ calls[j].input \in HeadlessUnstrikes =>
                    PostOf(j) = [calls[j].pre[1] EXCEPT !.ingredient_strikes =
                                    @ \ MatchedBy(calls[j])]
        /\ \A j \in 1..(Len(calls) - 1) :
              ( /\ calls[j].input \in HeadlessStrikes
                /\ calls[j + 1].input \in HeadlessUnstrikes
                /\ CommandTarget(calls[j + 1].input) = CommandTarget(calls[j].input) )
              => PostOf(j + 1) = [calls[j].pre[1] EXCEPT !.ingredient_strikes =
                                     @ \ MatchedBy(calls[j])]

\* x salt, x pasta, x pasta again, restore pasta: the second strike of
\* pasta changes nothing, and the unstrike takes away the ingredient that
\* "x salt" had struck too, because its text holds "pasta"
C31_Witness ==
    /\ Len(calls) = 4 /\ calls[1].fn = "handle_user_command_headless"
    /\ InputsOf(calls) = <<"x salt", "x pasta", "x pasta", "restore pasta">>
    /\ calls[1].pre[1].recipe_key = "garlic_pasta"
    /\ PostOf(3) = calls[3].pre[1]
    /\ MatchedBy(calls[1]) \cap MatchedBy(calls[4]) # {}
    /\ eng.ingredient_strikes = MatchedBy(calls[1]) \ MatchedBy(calls[4])

-----------------------------------------------------------------------------
(* Substitutions that name no ingredient (SpecCaller) *)

\* the ingredients of the call's recipe that occurrence k of its message names
NamedBy(call, k) ==
    { ing \in Range(RECIPE_LIBRARY(call.pre[1].recipe_key).ingredients) :
        Contains(Lower(Chars(ing)), Chars(SubOccurrences(call.input)[k].original)) }

\* a substitution message of app.py's chat input that is not taken as a reset
SubstitutionCall(call) ==
    /\ call.fn = "app.py chat input"
    /\ call.handled
    /\ SubOccurrences(call.input) # << >>

\* the reply is the failure text followed by every ingredient of the recipe
ListsIngredients(call) ==
    /\ Len(call.reply) > 0
    /\ call.reply[1] = "I couldn't find that ingredient in this recipe."
    /\ \A ing \in Range(RECIPE_LIBRARY(call.pre[1].recipe_key).ingredients) :
          \E i \in 1..Len(call.reply) : call.reply[i] = ing

\* C32: a substitution message of app.py none of whose originals is found
\* in an ingredient leaves the whole state as it was (ingredient_subs and
\* the step included), does not advance, and is answered with the failure
\* reply that lists the ingredients; when some original is found, the
\* ingredients whose entry is new or changed are all named by an original
\* of the message.
C32_UnknownOriginalAddsNothing ==
    \A j \in 1..Len(calls) :
        SubstitutionCall(calls[j]) =>
        LET occ == SubOccurrences(calls[j].input)
            before == calls[j].pre[1].ingredient_subs
            after == PostOf(j).ingredient_subs
        IN  IF \A k \in 1..Len(occ) : NamedBy(calls[j], k) = {}
            THEN /\ PostOf(j) = calls[j].pre[1]
                 /\ ~calls[j].advance_step
                 /\ ListsIngredients(calls[j])
            ELSE /\ ~ListsIngredients(calls[j])
                 /\ PostOf(j).current_step = calls[j].pre[1].current_step
                 /\ \A ing \in DOMAIN after :
                       (ing \notin DOMAIN before \/ after[ing] # before[ing])
                       => \E k \in 1..Len(occ) : ing \in NamedBy(calls[j], k)

\* on the pasta recipe "sub ghee for butter, sub tofu for salt" records tofu
\* for the two salted ingredients and nothing for the butter, and a later
\* "sub olive oil for butter" is answered with the failure reply
C32_Witness ==
    /\ Len(calls) = 2 /\ calls[1].fn = "app.py chat input"
    /\ InputsOf(calls) = <<"sub ghee for butter, sub tofu for salt",
                           "sub olive oil for butter">>
    /\ calls[1].pre[1].recipe_key = "garlic_pasta"
    /\ NamedBy(calls[1], 1) = {} /\ NamedBy(calls[1], 2) # {}
    /\ DOMAIN calls[2].pre[1].ingredient_subs = NamedBy(calls[1], 2)
    /\ ListsIngredients(calls[2])
    /\ eng = calls[2].pre[1]

-----------------------------------------------------------------------------
(* Recipe search in a loaded recipe file (SpecCatalog) *)

\* the largest recipe file that is loaded
MaxCatalog == 27

\* the characters of lower-cased labels, in code point order
CodeOrder == <<" ">> \o DigitChars \o LowerAZ
Ord(c) == CHOOSE i \in 1..Len(CodeOrder) : CodeOrder[i] = c

\* a < b for two strings
RECURSIVE StrLess(_, _)
StrLess(a, b) ==
    IF b = << >> THEN FALSE
    ELSE IF a = << >> THEN TRUE
    ELSE IF Head(a) = Head(b) THEN StrLess(Tail(a), Tail(b))
    ELSE Ord(Head(a)) < Ord(Head(b))

\* _load_recipe_library() with a file of n recipes, as the keys of the
\* dict in the file's order; the built-in set when there is no file or
\* the file holds an empty dict
LibraryKeys(n) ==
    IF n = 0 THEN <<"scrambled_eggs", "garlic_pasta">>
    ELSE [i \in 1..n |-> LoadedKeys[n + 1 - i]]

\* items.sort(key=lambda x: x[1].lower()): a stable sort by lower-cased label
RECURSIVE SortByLabel(_)
SortByLabel(keys) ==
    IF keys = << >> THEN << >>
    ELSE LET rest == SortByLabel(SubSeq(keys, 1, Len(keys) - 1))
             x == keys[Len(keys)]
             after == { i \in 1..Len(rest) :
                          ~StrLess(Lower(Chars(Recipe(x).name)),
                                   Lower(Chars(Recipe(rest[i]).name))) }
         IN  SubSeq(rest, 1, Cardinality(after)) \o <<x>>
             \o SubSeq(rest, Cardinality(after) + 1, Len(rest))

\* get_recipe_keys_and_labels() for each library
KeysAndLabels == [n \in 0..(MaxCatalog + 1) |-> SortByLabel(LibraryKeys(n))]

\* what the user types in recipe search mode
CatalogInputs ==
    { "soup", "SOUP", "Soup 2", " soup  1 ", "p 0", "stew", "eggs", "i",
      "1", "25", "26", "0", "exit", "(4301 nines)" }

\* the session is in recipe search mode, before a search or after the
\* search for "soup" ("s" in the built-in set), on a recipe of the library
InitCatalog ==
    /\ SESSIONS = << >>
    /\ last = NoRequest
    /\ out = NoCall
    /\ calls = << >>
    /\ scen \in 0..MaxCatalog
    /\ pick \in { PickState(TRUE, << >>),
                   PickState(TRUE, SubSeq(KeysAndLabels[scen], 1,
                                          Min(Len(KeysAndLabels[scen]), MAX_SHOW))) }
    /\ \E step \in 0..1 :
          eng = [ CookingState(KeysAndLabels[scen][1]) EXCEPT
                    !.current_step = step,
                    !.ingredient_strikes =
                        IF step = 0 THEN {}
                        ELSE {Recipe(KeysAndLabels[scen][1]).ingredients[2]} ]

SearchCatalog ==
    /\ out.fn = "none"
    /\ \E m \in CatalogInputs :
          StreamlitCalled(m, StreamlitDispatchIn(
              KeysAndLabels[scen], StreamlitParse(InputChars(m)),
              Recipe(eng.recipe_key).name, Recipe(eng.recipe_key).description,
              Recipe(eng.recipe_key).steps, Recipe(eng.recipe_key).ingredients,
              eng.ingredient_subs, eng, pick))
    /\ UNCHANGED <<SESSIONS, last, scen, calls>>

NextCatalog == SearchCatalog

SpecCatalog == InitCatalog /\ [][NextCatalog]_vars

-----------------------------------------------------------------------------
(* The candidates of a search (SpecCatalog) *)

\* the searches among the inputs and the tokens of each, read off its
\* lower-cased text
SearchTokens(m) ==
    CASE m = "soup" -> <<"soup">>
      [] m = "SOUP" -> <<"soup">>
      [] m = "Soup 2" -> <<"soup", "2">>
      [] m = " soup  1 " -> <<"soup", "1">>
      [] m = "p 0" -> <<"p", "0">>
      [] m = "stew" -> <<"stew">>
      [] m = "eggs" -> <<"eggs">>
      [] m = "i" -> <<"i">>
      [] OTHER -> << >>

\* the recipes of the library, in display order, whose lower-cased name
\* contains every token of the search
Found(n, m) ==
    SelectSeq(KeysAndLabels[n],
              LAMBDA key : \A t \in Range(SearchTokens(m)) :
                  Contains(Lower(Chars(Recipe(key).name)), Chars(t)))

\* a line of the reply is "<n>. <name of the recipe>"
NumberedLine(reply, n, key) ==
    \E j \in 1..Len(reply) :
        /\ j + Len(NumStr(n)) + 2 <= Len(reply)
        /\ SubSeq(reply, j, j + Len(NumStr(n)) + 2)
              = <<"\n">> \o NumStr(n) \o <<". ", Recipe(key).name>>

\* the reply's line about further results names the number n
ReportsMore(reply, n) ==
    \E j \in 1..Len(reply) :
        /\ j + Len(NumStr(n)) + 1 <= Len(reply)
        /\ SubSeq(reply, j, j + Len(NumStr(n)) + 1)
              = <<"...and ">> \o NumStr(n) \o <<" more results. ">>

\* a search in pick mode that finds recipes
SearchFinds ==
    /\ out.fn = "handle_user_command"
    /\ out.pre_pick[1].pending_recipe_pick
    /\ SearchTokens(out.input) # << >>
    /\ Found(scen, out.input) # << >>

\* C33: in pick mode a non-numeric query that M recipes match stores as
\* pick_candidates the first min(25, M) keys, in display order, of the
\* recipes whose lower-cased name contains every token of the query: never
\* more than 25, numbered in the reply 1, 2, ... in the same order, and
\* the reply reports M - 25 further results exactly when M > 25.
C33_CandidatesAreFirstMatches ==
    SearchFinds =>
        LET found == Found(scen, out.input)
            M == Len(found)
        IN  /\ pick.pick_candidates = SubSeq(found, 1, Min(MAX_SHOW, M))
            /\ Len(pick.pick_candidates) <= MAX_SHOW
            /\ pick.pending_recipe_pick
            /\ eng = out.pre[1]
            /\ \A idx \in 1..Len(pick.pick_candidates) :
                  NumberedLine(out.reply, idx, pick.pick_candidates[idx])
            /\ \A key \in Range(KeysAndLabels[scen]) :
                  ~NumberedLine(out.reply, Len(pick.pick_candidates) + 1, key)
            /\ IF M > MAX_SHOW
               THEN ReportsMore(out.reply, M - MAX_SHOW)
               ELSE \A i \in 1..Len(out.reply) : out.reply[i] # "...and "

\* "soup" in a library of 27 soups: 25 candidates and 2 more results
C33_Witness ==
    /\ SearchFinds
    /\ out.input = "soup" /\ scen = 27
    /\ Len(pick.pick_candidates) = 25
    /\ pick.pick_candidates[25] = "soup_25"
    /\ ReportsMore(out.reply, 2)

-----------------------------------------------------------------------------
(* Leaving recipe search mode (SpecEngine) *)

CancelKeywords == {"cancel", "exit", "stop picking", " Cancel "}

LeavingReply == <<"Okay, leaving recipe search mode.">>

\* C34: a cancel keyword (cancel, exit, stop picking) sent to the Streamlit
\* handle_user_command while pending_recipe_pick is true sets it to false
\* and clears pick_candidates, and changes nothing else of the state;
\* sent while not in pick mode it is not taken as a cancel and changes no
\* state at all.
C34_CancelLeavesPickMode ==
    (StreamlitCall /\ out.input \in CancelKeywords) =>
        /\ eng = out.pre[1]
        /\ ~out.rerun /\ ~out.advance_step
        /\ IF out.pre_pick[1].pending_recipe_pick
           THEN /\ pick = PickState(FALSE, << >>)
                /\ out.handled /\ out.reply = LeavingReply
           ELSE /\ pick = out.pre_pick[1]
                /\ out.reply # LeavingReply

\* "stop picking" with a list of candidates on a recipe under way
C34_Witness ==
    /\ StreamlitCall /\ out.input = "stop picking"
    /\ out.pre_pick[1] = PickState(TRUE, get_recipe_keys_and_labels)
    /\ pick = PickState(FALSE, << >>)
    /\ eng.current_step = 2 /\ eng.ingredient_strikes # {}
    /\ eng.ingredient_subs # << >>

-----------------------------------------------------------------------------
(* Entering, staying in and leaving recipe search mode (SpecEngine) *)

\* the inputs that are a number and nothing else
NumericInputs == {"1", "2", "6", "0", "9", "86 "}

\* the number typed
TypedNumber(m) ==
    CASE m = "1" -> 1 [] m = "2" -> 2 [] m = "6" -> 6 [] m = "0" -> 0
      [] m = "9" -> 9 [] m = "86 " -> 86 [] OTHER -> 0

\* the inputs that recipe search mode does not take as a search
NotSearched ==
    CancelKeywords \cup ResetInputs \cup JumpInputs \cup {"pick"} \cup NumericInputs

\* the first piece of each reply of the search rule
SearchReplies ==
    { "Please type a keyword for the kind of recipe you want.\n",
      "I couldn't find any recipes matching '",
      "Recipes matching '" }

\* C35: pending_recipe_pick becomes true only through 'pick', which also
\* clears pick_candidates; once true it stays true unless the input is a
\* cancel keyword, a reset phrase or a number that selects a candidate;
\* and while it is true every other input that is not a number, an 'x N'
\* or 'pick' is answered by the search rule, with the cooking state left
\* alone, and so never reaches the ingredient, step or status commands.
C35_PickModeLifecycle ==
    StreamlitCall =>
        LET before == out.pre_pick[1]
            m == out.input
        IN  /\ (~before.pending_recipe_pick /\ pick.pending_recipe_pick)
                  => m = "pick"
            /\ m = "pick" => pick = PickState(TRUE, << >>)
            /\ (before.pending_recipe_pick /\ ~pick.pending_recipe_pick)
                  => \/ m \in CancelKeywords \cup ResetInputs
                     \/ /\ m \in NumericInputs
                        /\ TypedNumber(m) \in 1..Len(before.pick_candidates)
            /\ (before.pending_recipe_pick /\ m \notin NotSearched)
                  => /\ out.handled
                     /\ Len(out.reply) > 0 /\ out.reply[1] \in SearchReplies
                     /\ pick.pending_recipe_pick
                     /\ eng = out.pre[1]

\* "i" typed in search mode is a search that finds the garlic pasta
C35_Witness ==
    /\ StreamlitCall /\ out.input = "i"
    /\ out.pre_pick[1] = PickState(TRUE, <<"scrambled_eggs">>)
    /\ out.reply[1] = "Recipes matching '"
    /\ pick = PickState(TRUE, <<"garlic_pasta">>)

-----------------------------------------------------------------------------
(* Inputs that recipe search mode cannot use (SpecCatalog) *)

\* the number typed into the search; None when it is not a number
SearchNumber(m) ==
    CASE m = "0" -> Some(0)
      [] m = "1" -> Some(1)
      [] m = "25" -> Some(25)
      [] m = "26" -> Some(26)
      [] m = "(4301 nines)" -> Some(10 ^ 9)
      [] OTHER -> None

\* a call in pick mode with a search that matches nothing, a number while
\* there is no candidate list, or a number that is not in the list
Unusable ==
    /\ out.fn = "handle_user_command"
    /\ out.pre_pick[1].pending_recipe_pick
    /\ IF SearchNumber(out.input) = None
       THEN SearchTokens(out.input) # << >> /\ Found(scen, out.input) = << >>
       ELSE SearchNumber(out.input)[1]
               \notin 1..Len(out.pre_pick[1].pick_candidates)

\* C36: in pick mode a search without matches, a number typed while there
\* is no candidate list, and a number outside 1..len(pick_candidates) are
\* answered with a normal reply; pending_recipe_pick stays true and
\* recipe_key, current_step, the substitutions, the strikes and
\* pick_candidates are as before.
C36_UnusableInputAnswered ==
    Unusable =>
        /\ out.raised = ""
        /\ out.handled /\ Len(out.reply) > 0
        /\ ~out.rerun /\ ~out.advance_step
        /\ pick = out.pre_pick[1]
        /\ eng = out.pre[1]

-----------------------------------------------------------------------------
(* Choosing a recipe from the candidates (SpecEngine) *)

\* a number typed in pick mode that is in the candidate list
Selects ==
    /\ StreamlitCall
    /\ out.pre_pick[1].pending_recipe_pick
    /\ out.input \in NumericInputs
    /\ TypedNumber(out.input) \in 1..Len(out.pre_pick[1].pick_candidates)

\* C37: a number N in 1..len(pick_candidates) typed in pick mode leaves
\* the session on the N-th candidate with current_step 0, no
\* substitutions and no strikes, pending_recipe_pick false and
\* pick_candidates cleared, whatever the step, the substitutions and the
\* strikes of the recipe before.
C37_SelectionStartsAfresh ==
    Selects =>
        /\ out.raised = "" /\ out.rerun
        /\ eng = [ recipe_key |->
                       out.pre_pick[1].pick_candidates[TypedNumber(out.input)],
                   current_step |-> 0,
                   ingredient_subs |-> << >>,
                   ingredient_strikes |-> {} ]
        /\ pick = PickState(FALSE, << >>)

\* "2" picks the eggs while the pasta is at its last step with two
\* substitutions and strikes
C37_Witness ==
    /\ Selects /\ out.input = "2"
    /\ out.pre[1].recipe_key = "garlic_pasta"
    /\ out.pre[1].current_step = 7
    /\ Cardinality(DOMAIN out.pre[1].ingredient_subs) = 2
    /\ out.pre[1].ingredient_strikes # {}
    /\ eng = CookingState("scrambled_eggs")

-----------------------------------------------------------------------------
(* A failing client call (SpecAgent) *)

\* the client call of call_agent_sous_chef raised
ClientFailed ==
    out.fn = "call_agent_sous_chef" /\ out.pre[1].kind = "raise"

\* a model response that is not JSON
Unparsable == [kind |-> "content", content |-> "{\"reply\": \"a\",}"]

\* C38: when the client call itself raises, call_agent_sous_chef raises
\* nothing: it returns a result whose advance_step is the heuristic one,
\* the one it returns for the same input when the model's output is not
\* JSON.
C38_ClientFailureDegrades ==
    ClientFailed =>
        /\ out.raised = ""
        /\ out.advance_step
              = call_agent_sous_chef(Chars(out.input), Unparsable).advance_step

-----------------------------------------------------------------------------
(* SpecSessions: clients of several sessions at the API server.  The       *)
(* endpoints are plain functions, which the server runs on worker threads: *)
(* a request whose message the engine does not handle waits for the LLM    *)
(* fallback while other requests are served.  Here calls holds the         *)
(* requests that wait, scen counts the ids uuid4 has returned, and out is  *)
(* an observer: for each id the messages answered so far, with the         *)
(* fallback's outcome.                                                     *)

\* Each session is sent at most MaxOwn messages.
MaxOwn == 2

\* uuid4 returns an id it has not returned before
IdOrder == <<"s1", "s2">>

SessionsMessages == {"x salt", "hmm"}

\* the outcomes of the fallback that differ in what they do to the session:
\* it raises, or it returns a reply and advance_step true
SessionsFallbacks ==
    { fb \in FallbackOutcomes :
        fb.reply # << >> /\ (fb.kind = "raise" \/ fb.advance_step) }

InitSessions ==
    /\ SESSIONS = << >>
    /\ last = NoRequest
    /\ scen = 0
    /\ calls = << >>
    /\ out = [id \in SessionIds |-> << >>]
    /\ eng = CookingState("garlic_pasta")
    /\ pick = PickState(FALSE, << >>)

\* POST /session/start: the id is made after the recipe was found
StartFresh ==
    /\ scen < Len(IdOrder)
    /\ \E k \in RequestKeys :
          /\ start_session(k, IdOrder[scen + 1])
          /\ scen' = IF k \in RecipeKeys THEN scen + 1 ELSE scen

InFlight(session_id) ==
    \E i \in 1..Len(calls) : calls[i].session_id = session_id

\* POST /session/{session_id}/message up to the call of the fallback; a
\* message the engine handles is answered at once
BeginMessage ==
    \E session_id \in SessionIds, m \in SessionsMessages :
        /\ ~InFlight(session_id)
        /\ Len(out[session_id]) < MaxOwn
        /\ IF session_id \notin DOMAIN SESSIONS
           THEN /\ last' = [NoRequest EXCEPT !.op = "send_message",
                                             !.session_id = session_id,
                                             !.message = m, !.status = 404]
                /\ UNCHANGED <<SESSIONS, calls, out>>
           ELSE LET session == SESSIONS[session_id]
                    recipe == RECIPE_LIBRARY(session.cooking_state.recipe_key)
                    result == handle_command(Stripped[m], session.cooking_state,
                                  recipe.name, recipe.ingredients, recipe.steps)
                IN  IF result.raised # ""
                    THEN /\ SESSIONS' = Put(SESSIONS, session_id,
                               [session EXCEPT !.messages = session.messages + 1])
                         /\ last' = [NoRequest EXCEPT !.op = "send_message",
                                        !.session_id = session_id,
                                        !.message = m, !.status = 500,
                                        !.pre = Some(session.cooking_state)]
                         /\ UNCHANGED <<calls, out>>
                    ELSE IF result.handled
                    THEN /\ SESSIONS' = Put(SESSIONS, session_id,
                               [ cooking_state |->
                                   SendMessageState(session.cooking_state, result,
                                                    NoFallback, recipe.steps),
                                 messages |-> session.messages + 2 ])
                         /\ last' = [NoRequest EXCEPT !.op = "send_message",
                                        !.session_id = session_id,
                                        !.message = m, !.status = 200,
                                        !.handled = TRUE,
                                        !.reply = SendMessageReply(result, NoFallback),
                                        !.pre = Some(session.cooking_state)]
                         /\ out' = [out EXCEPT ![session_id] =
                                       Append(@, [message |-> m, fb |-> NoFallback])]
                         /\ UNCHANGED calls
                    ELSE /\ SESSIONS' = Put(SESSIONS, session_id,
                               [session EXCEPT !.messages = session.messages + 1])
                         /\ calls' = Append(calls, [session_id |-> session_id,
                                                    message |-> m])
                         /\ UNCHANGED <<last, out>>
        /\ UNCHANGED <<eng, scen, pick>>

\* the fallback returns or raises, and the handler goes on with the
\* Session object it holds; it is in SESSIONS unless it was deleted since
FinishMessage ==
    \E i \in 1..Len(calls), fb \in SessionsFallbacks :
        LET session_id == calls[i].session_id
            unhandled == CommandResult(FALSE, << >>, None)
        IN  /\ IF session_id \in DOMAIN SESSIONS
               THEN LET session == SESSIONS[session_id]
                    IN  SESSIONS' = Put(SESSIONS, session_id,
                           [ cooking_state |->
                               SendMessageState(session.cooking_state, unhandled, fb,
                                   RECIPE_LIBRARY(session.cooking_state.recipe_key).steps),
                             messages |-> session.messages + 1 ])
               ELSE UNCHANGED SESSIONS
            /\ last' = [NoRequest EXCEPT !.op = "send_message",
                           !.session_id = session_id,
                           !.message = calls[i].message, !.status = 200,
                           !.reply = SendMessageReply(unhandled, fb),
                           !.fallback = fb.kind,
                           !.advance_step = fb.advance_step]
            /\ out' = [out EXCEPT ![session_id] =
                          Append(@, [message |-> calls[i].message, fb |-> fb])]
            /\ calls' = SubSeq(calls, 1, i - 1) \o SubSeq(calls, i + 1, Len(calls))
            /\ UNCHANGED <<eng, scen, pick>>

InfoAny == (\E session_id \in SessionIds : get_session_info(session_id)) /\ UNCHANGED scen

DeleteAny == (\E session_id \in SessionIds : delete_session(session_id)) /\ UNCHANGED scen

\* GET /sessions
ListSessions ==
    /\ last' = [NoRequest EXCEPT !.op = "list_sessions", !.status = 200,
                                 !.listing = list_sessions_entries(SESSIONS)]
    /\ UNCHANGED <<SESSIONS, eng, out, scen, pick, calls>>

NextSessions ==
    StartFresh \/ BeginMessage \/ FinishMessage \/ InfoAny \/ DeleteAny \/ ListSessions

SpecSessions == InitSessions /\ [][NextSessions]_vars

-----------------------------------------------------------------------------
(* The lifetime of a session id (SpecSessions) *)

\* this step is a start request that returned the id
Created(id) ==
    /\ scen' = scen + 1
    /\ last'.op = "start_session" /\ last'.status = 200
    /\ last'.session_id = id

\* this step is a delete request for the id that was answered 200
Deleted(id) ==
    /\ last'.op = "delete_session" /\ last'.status = 200
    /\ last'.session_id = id
    /\ id \in DOMAIN SESSIONS /\ id \notin DOMAIN SESSIONS'

\* this step is a request that names the id and is answered in the step
AnsweredAtOnce(id) ==
    /\ last' # last /\ calls' = calls
    /\ last'.op \in {"send_message", "get_session_info", "delete_session"}
    /\ last'.session_id = id

\* the last request was a delete of the id that was answered 200
WasDeleted(id) ==
    last.op = "delete_session" /\ last.status = 200 /\ last.session_id = id

\* what each request does to the set of ids and what it is answered
LifetimeStep ==
    \A id \in SessionIds :
        /\ AnsweredAtOnce(id) =>
              (last'.status = 404 <=> id \notin DOMAIN SESSIONS)
        /\ (InFlight(id)' /\ ~InFlight(id)) => id \in DOMAIN SESSIONS
        /\ id \in DOMAIN SESSIONS' <=>
              (Created(id) \/ (id \in DOMAIN SESSIONS /\ ~Deleted(id)))
        /\ Deleted(id) =>
              \A other \in DOMAIN SESSIONS \ {id} :
                  other \in DOMAIN SESSIONS' /\ SESSIONS'[other] = SESSIONS[other]
        /\ last'.op = "list_sessions" =>
              {e.session_id : e \in last'.listing} = DOMAIN SESSIONS'

\* C39: a session id is usable exactly from its creation to its deletion:
\* a request that names it is answered not-found exactly when the id is
\* not in SESSIONS, the id enters SESSIONS by the start request that
\* returns it and leaves by its delete request only, list_sessions lists
\* exactly the ids in SESSIONS, a delete leaves every other session as it
\* was, and once an id is deleted it is never in SESSIONS again.
C39_UsableFromStartToDelete ==
    /\ [][LifetimeStep]_vars
    /\ \A id \in SessionIds : [](WasDeleted(id) => [](id \notin DOMAIN SESSIONS))

\* a message to the deleted first session is answered 404 while the second
\* session, started on the same recipe, keeps its strikes
C39_Witness ==
    /\ last.op = "send_message" /\ last.session_id = "s1" /\ last.status = 404
    /\ "s1" \notin DOMAIN SESSIONS /\ out["s1"] # << >>
    /\ "s2" \in DOMAIN SESSIONS
    /\ SESSIONS["s2"].cooking_state.recipe_key = "garlic_pasta"
    /\ SESSIONS["s2"].cooking_state.ingredient_strikes # {}

-----------------------------------------------------------------------------
(* Sessions do not touch each other (SpecSessions) *)

\* the Cooking State of a session on the recipe after the requests of log,
\* and no other request, were applied in order
RECURSIVE RunOwn(_, _)
RunOwn(recipe_key, log) ==
    IF log = << >> THEN CookingState(recipe_key)
    ELSE LET state == RunOwn(recipe_key, SubSeq(log, 1, Len(log) - 1))
             entry == log[Len(log)]
             recipe == RECIPE_LIBRARY(recipe_key)
         IN  SendMessageState(state,
                 handle_command(Stripped[entry.message], state, recipe.name,
                                recipe.ingredients, recipe.steps),
                 entry.fb, recipe.steps)

\* each session is in the state its own requests lead to
OwnRequestsOnly ==
    \A id \in DOMAIN SESSIONS :
        SESSIONS[id].cooking_state
            = RunOwn(SESSIONS[id].cooking_state.recipe_key, out[id])

\* a step that changes a session is a step of a request to that session
OwnStep ==
    \A id \in DOMAIN SESSIONS \cap DOMAIN SESSIONS' :
        SESSIONS'[id] # SESSIONS[id] =>
            out'[id] # out[id] \/ InFlight(id)' # InFlight(id)

\* C40: however the requests to different sessions are interleaved, each
\* session's state is the one that its own requests alone lead to, and a
\* request to one session never changes another session, also when both
\* were started on the same recipe.
C40_SessionsIsolated ==
    []OwnRequestsOnly /\ [][OwnStep]_vars

\* two sessions on the pasta: the first waits for the fallback with its
\* second message, the second has struck the salt and was advanced by the
\* fallback, and each has only its own progress
C40_Witness ==
    /\ DOMAIN SESSIONS = {"s1", "s2"}
    /\ SESSIONS["s1"].cooking_state.recipe_key = "garlic_pasta"
    /\ SESSIONS["s2"].cooking_state.recipe_key = "garlic_pasta"
    /\ InFlight("s1") /\ Len(out["s1"]) = 1 /\ Len(out["s2"]) = 2
    /\ SESSIONS["s1"].cooking_state.current_step = 1
    /\ SESSIONS["s1"].cooking_state.ingredient_strikes = {}
    /\ SESSIONS["s2"].cooking_state.current_step = 1
    /\ SESSIONS["s2"].cooking_state.ingredient_strikes # {}

====
